---- MODULE Spec2Model ----
(***************************************************************************)
(* Verification model of the FlexCableAligner jog-control engine.          *)
(*                                                                         *)
(*   Part I   Printer (Marlin over serial, include/printer.py) driven by   *)
(*            FlexAlignerGUI (include/gui.py): the tick, the dedup state   *)
(*            of the two carriages, emergency stop.      Specification Spec *)
(*   Part II  AsyncWebSocketClient (include/AsyncWebClient.py): request    *)
(*            ids, the pending-request map, timeouts, disconnect.          *)
(*                                                    Specification SpecWs *)
(*   Part III Notification handlers.               Specification SpecNotify *)
(*   Part IV  SmoothJoystickController connection life cycle.              *)
(*                                                    Specification SpecSj *)
(*   Part V   AsyncSmoothJoystickController jog loop, position updater     *)
(*            and the Klipper scripts.                 Specification SpecAc *)
(*   Part VI  Pure functions: smoothing, dynamic interval, velocity curve. *)
(*                        Specifications SpecSmooth, SpecInterval, SpecCurve *)
(*   Part VII FlexCableAlignerPlugin._loop (OctoPrint plugin).             *)
(*                                                Specification SpecPlugin *)
(*   Part VIII Printer.get_position and the parsing of the M114 report.    *)
(*                                                  Specification SpecM114 *)
(*   Part IX  Printer.send_gcode / get_position called from two threads.   *)
(*                                                Specification SpecSerial *)
(*   Part X   Jog loops and position updaters started by the controllers.  *)
(*                                                 Specification SpecTasks *)
(*   Part XI  Position queries and the reports that answer them.           *)
(*                                             Specification SpecPositions *)
(*   Part XII The integration step of smooth_jog_loop.                     *)
(*                                              Specification SpecJogClock *)
(*   Part I.i adds the step buttons of the window: Specification SpecMotion *)
(*                                                                         *)
(* Units: feed and velocity in mm/min, time in ms, position in whole mm.   *)
(***************************************************************************)
EXTENDS Integers, Sequences, FiniteSets, TLC

(***************************************************************************)
(* Bounds of the model                                                     *)
(***************************************************************************)
\* |position| of every axis stays within MaxPos mm (ticks that would leave it are not taken)
MaxPos == 2

(***************************************************************************)
(* Program constants                                                       *)
(***************************************************************************)
feed_resend_threshold == 50
velocity_stop_threshold == 5
base_speed == 600
config_max_speed == 40000
slider_top_speed == 1000
slider_update_threshold == 25
deadzone_pct == 12

(***************************************************************************)
(* Input domains                                                           *)
(***************************************************************************)
\* joystick axis 0 / axis 1 readings in hundredths of full deflection
Axis0Vals == {-100, 0, 100}
Axis1Vals == {0}
\* hat vertical readings
HatVals == {0}
\* position of the speed axis (axis 3) in percent of its travel: 600, 640, 700 mm/min
SpeedPcts == {0, 10, 25}
\* position of the speed axis when the window is built
InitSpeedPcts == {10}
\* wall-clock time between two ticks, ms
TickDts == {20}
\* buttons whose press passes the debounce on a tick (0.3 s for home, 0.2 s for the
\* toggle since the last accepted press; the time since the last press is not
\* tracked, the ticks between two presses stand for it)
ButtonSets == {{}, {"toggle"}}

Carriages == {1, 2}
Axes == {"x", "y", "z", "a", "b", "c"}
Zero == <<0, 0, 0>>

Abs(n) == IF n < 0 THEN -n ELSE n
Sgn(n) == IF n > 0 THEN 1 ELSE IF n < 0 THEN -1 ELSE 0
Max(a, b) == IF a >= b THEN a ELSE b

VARIABLES
    printer,            \* Printer: connected, ser, is_moving, carriage, last_dir, last_feed
    connected,          \* FlexAlignerGUI.connected
    running,            \* FlexAlignerGUI.running
    scheduled,          \* a call of _loop_iteration is pending in the Tk event queue
    selected_carriage,  \* FlexAlignerGUI.selected_carriage
    last_dir_sent,      \* FlexAlignerGUI._last_dir_sent
    last_feed_sent,     \* FlexAlignerGUI._last_feed_sent
    max_speed,          \* JogConfig.max_speed
    speed_var,          \* FlexAlignerGUI.speed_var
    positions,          \* FlexAlignerGUI.positions
    current_vel,        \* FlexAlignerGUI.current_vel
    op,                 \* the operation that ran last
    tick_in,            \* the input of the tick that ran last (NoTickIn after any other operation)
    out                 \* the send_gcode calls of the operation that ran last, in order

gui_vars == <<printer, connected, running, scheduled, selected_carriage, last_dir_sent, last_feed_sent, max_speed, speed_var, positions, current_vel, op, tick_in, out>>

VARIABLES
    ws_connected,       \* AsyncWebSocketClient.connected
    websocket,          \* AsyncWebSocketClient.websocket: "none", "open", or "closed" by the peer
    disconnecting,      \* disconnect() is suspended in await self.websocket.close()
    message_id,         \* AsyncWebSocketClient.message_id
    pending_requests,   \* AsyncWebSocketClient.pending_requests: request id -> the caller awaiting its future
    call,               \* per caller: where its send_request stands, its request id, its future
    issued,             \* the request ids handed out so far
    ev                  \* the client step that ran last

ws_vars == <<ws_connected, websocket, disconnecting, message_id, pending_requests, call, issued, ev>>

VARIABLES
    message_handlers,   \* AsyncWebSocketClient.message_handlers
    notified            \* the handlers the receiver called for the last inbound message, in order

nt_vars == <<message_handlers, notified>>

VARIABLES
    sj_running,         \* SmoothJoystickController.running
    sj_connected,       \* SmoothJoystickController.connected
    reconnect_attempts, \* SmoothJoystickController.reconnect_attempts
    reconnect_backoff,  \* SmoothJoystickController.reconnect_backoff, in ms
    ws_app,             \* SmoothJoystickController.ws_app: "none", or the state of the WebSocketApp it refers to
    close_pending,      \* WebSocketApps that ended and have not yet called on_close
    timers,             \* threading.Timer objects waiting to call attempt_websocket_reconnection
    auto_started,       \* reconnections started from a Timer since the last open or user command
    sj_op               \* the SmoothJoystickController step that ran last

sj_vars == <<sj_running, sj_connected, reconnect_attempts, reconnect_backoff, ws_app, close_pending, timers, auto_started, sj_op>>

VARIABLES
    ac_running,         \* AsyncSmoothJoystickController.running
    ac_connected,       \* AsyncSmoothJoystickController.connected
    jog_pc,             \* where the task smooth_jog_loop stands
    pos_pc,             \* where the task periodic_position_update stands
    jog_move,           \* the G1 of the current iteration of smooth_jog_loop (dx, feedrate)
    current_velocity,   \* AsyncSmoothJoystickController.current_velocities['x'], mm/min
    ac_positions,       \* AsyncSmoothJoystickController.positions: x and u, whole mm
    since_movement,     \* seconds since last_movement_time
    since_update,       \* seconds since last_update of periodic_position_update
    dual_carriage,      \* Klipper: the carriage serving X and the one serving Y, as the scripts left it
    dc_before,          \* dual_carriage before the operation that ran last
    ac_ev               \* the controller step that ran last: what it sent and what it showed

ac_vars == <<ac_running, ac_connected, jog_pc, pos_pc, jog_move, current_velocity, ac_positions, since_movement, since_update, dual_carriage, dc_before, ac_ev>>

VARIABLES
    positions_list,     \* FlexAlignerGUI.positions_list: the saved snapshots (x, y, z, a, b, c), oldest first
    row_list,           \* FlexAlignerGUI.row_list: per table row, the index its click handler is bound to
    current_row_index,  \* FlexAlignerGUI.current_row_index
    selected_row_index  \* FlexAlignerGUI.selected_row_index (None, or a 0-based index)

sv_vars == <<positions_list, row_list, current_row_index, selected_row_index>>

VARIABLES
    sm_vel,             \* smooth_velocity_transition: current_vel, the velocity last returned
    sm_target,          \* smooth_velocity_transition: target_vel
    sm_dt,              \* smooth_velocity_transition: dt of the call that ran last, ms (-1: none)
    iv_min,             \* SmoothJoggingConfig.min_jog_interval, ns
    iv_v,               \* get_dynamic_interval: the velocity of the last two calls
    iv_out,             \* get_dynamic_interval: the value of the last two calls, ns
    vc_in,              \* get_velocity_curve: stick_input, fine_mode and the configuration class
    vc_out              \* get_velocity_curve: the value returned for vc_in

fn_vars == <<sm_vel, sm_target, sm_dt, iv_min, iv_v, iv_out, vc_in, vc_out>>

VARIABLES
    pl_running,            \* FlexCableAlignerPlugin._running is set
    pl_now,                \* time.time() at the current pass of _loop, in ms
    last_stop_sent,        \* self._last_stop_sent in ms, 0 = never
    pl_last_dir,           \* _loop's local last_dir
    pl_last_feed,          \* _loop's local last_feed
    last_button_times,     \* self._last_button_times of the keys 'home' and 'toggle_car'
    pl_selected_carriage,  \* self._selected_carriage of the plugin
    stay_stop_at,          \* history: time of the last M410 that reached the printer during the
                           \* current stay of the input in the deadzone, 0 = none yet
    pl_ev                  \* history: the last pass of _loop (inputs, lines that reached the printer)
pl_vars == <<pl_running, pl_now, last_stop_sent, pl_last_dir, pl_last_feed, last_button_times, pl_selected_carriage, stay_stop_at, pl_ev>>

VARIABLES
    gp_reply,           \* the lines the controller sends within the 0.2 s after M114 was written
    gp_ret              \* what Printer.get_position returned for gp_reply
gp_vars == <<gp_reply, gp_ret>>

VARIABLES
    io_lock,            \* Printer._io_lock: the thread that owns the RLock (0: free) and its depth
    sl_pc,              \* per thread: where its call of send_gcode / get_position stands
    sl_call,            \* per thread: the call it is in or has just finished
    sl_wire,            \* lines written to the port that the controller has not yet answered
    sl_rx,              \* lines the controller has sent that nobody has read yet
    sl_next_id,         \* number given to the next line written (history)
    sl_ev               \* the last step of a thread on the serial link (history)
sl_vars == <<io_lock, sl_pc, sl_call, sl_wire, sl_rx, sl_next_id, sl_ev>>

\* Part X: the tasks and threads the controllers start
VARIABLES tk_running, tk_connected, jog_tasks, pos_tasks, connect_calls, reconnect_calls,
          connect_btn, disconnect_btn, reconnect_btn,
          th_running, jog_threads, jog_thread_alive, th_connect_btn, th_reconnect_btn, tk_op
tk_vars == <<tk_running, tk_connected, jog_tasks, pos_tasks, connect_calls, reconnect_calls, connect_btn, disconnect_btn, reconnect_btn, th_running, jog_threads, jog_thread_alive, th_connect_btn, th_reconnect_btn, tk_op>>

\* Part XI: position queries and the reports that answer them
VARIABLES pending_position_request, up_pc, up_id, printer_queue, inbox, stored_from, pq_started, pq_ev
pq_vars == <<pending_position_request, up_pc, up_id, printer_queue, inbox, stored_from, pq_started, pq_ev>>

\* Part XII: the clock of smooth_jog_loop
VARIABLES jl_running, jl_connected, jl_now, last_update_time, prev_turn, jl_velocity, jl_ev
jl_vars == <<jl_running, jl_connected, jl_now, last_update_time, prev_turn, jl_velocity, jl_ev>>

vars == <<gui_vars, ws_vars, nt_vars, sj_vars, ac_vars, sv_vars, fn_vars, pl_vars, gp_vars, sl_vars, tk_vars, pq_vars, jl_vars>>

\* what the operations of one part leave alone
non_gui_vars == <<ws_vars, nt_vars, sj_vars, ac_vars, sv_vars, fn_vars, pl_vars, gp_vars, sl_vars, tk_vars, pq_vars, jl_vars>>
non_panel_vars == <<ws_vars, nt_vars, sj_vars, ac_vars, fn_vars, pl_vars, gp_vars, sl_vars, tk_vars, pq_vars, jl_vars>>
non_ws_vars == <<gui_vars, nt_vars, sj_vars, ac_vars, sv_vars, fn_vars, pl_vars, gp_vars, sl_vars, tk_vars, pq_vars, jl_vars>>
non_sj_vars == <<gui_vars, ws_vars, nt_vars, ac_vars, sv_vars, fn_vars, pl_vars, gp_vars, sl_vars, tk_vars, pq_vars, jl_vars>>
non_ac_vars == <<gui_vars, nt_vars, sj_vars, sv_vars, fn_vars, pl_vars, gp_vars, sl_vars, tk_vars, pq_vars, jl_vars>>
non_fn_vars == <<gui_vars, ws_vars, nt_vars, sj_vars, ac_vars, sv_vars, pl_vars, gp_vars, sl_vars, tk_vars, pq_vars, jl_vars>>
non_pl_vars == <<gui_vars, ws_vars, nt_vars, sj_vars, ac_vars, sv_vars, fn_vars, gp_vars, sl_vars, tk_vars, pq_vars, jl_vars>>
non_gp_vars == <<gui_vars, ws_vars, nt_vars, sj_vars, ac_vars, sv_vars, fn_vars, pl_vars, sl_vars, tk_vars, pq_vars, jl_vars>>
non_sl_vars == <<gui_vars, ws_vars, nt_vars, sj_vars, ac_vars, sv_vars, fn_vars, pl_vars, gp_vars, tk_vars, pq_vars, jl_vars>>
non_tk_vars == <<gui_vars, ws_vars, nt_vars, sj_vars, ac_vars, sv_vars, fn_vars, pl_vars, gp_vars, sl_vars, pq_vars, jl_vars>>
non_pq_vars == <<gui_vars, ws_vars, nt_vars, sj_vars, ac_vars, sv_vars, fn_vars, pl_vars, gp_vars, sl_vars, tk_vars, jl_vars>>
non_jl_vars == <<gui_vars, ws_vars, nt_vars, sj_vars, ac_vars, sv_vars, fn_vars, pl_vars, gp_vars, sl_vars, tk_vars, pq_vars>>

(***************************************************************************)
(* Part I.a  Printer (include/printer.py)                                  *)
(***************************************************************************)
\* a G-code script handed to send_gcode
Cmd(name, car, dir, feed) == [name |-> name, car |-> car, dir |-> dir, feed |-> feed]
Plain(name) == Cmd(name, 0, Zero, 0)

\* Printer.__init__
PrinterInit ==
    [connected |-> FALSE, ser |-> FALSE, is_moving |-> FALSE, carriage |-> 1,
     last_dir |-> [c \in Carriages |-> Zero], last_feed |-> 0]

\* Printer._write_line: TRUE iff the line reaches the port (else RuntimeError)
write_line_mut(pr) == TRUE
write_line(pr) == pr.connected /\ pr.ser

\* Printer.send_gcode: one call, as the record of what it did.
\*   written: the script was written to the port; waited: _read_until_ok ran;
\*   ret: the value returned.  ack: an ok line arrives within the timeout.
send_gcode(pr, cmd, wait_ok, ack) ==
    LET written == write_line(pr)
    IN  [cmd |-> cmd, written |-> written, waited |-> written /\ wait_ok,
         ret |-> IF ~written THEN FALSE ELSE IF wait_ok THEN ack ELSE TRUE]

\* Printer.set_carriage
set_carriage(pr, which) == [pr EXCEPT !.carriage = IF which # 2 THEN 1 ELSE 2]

\* Printer.stop_jog
stop_jog(pr, ack) ==
    LET s == send_gcode(pr, Plain("M410"), TRUE, ack)
    IN  [pr  |-> [pr EXCEPT !.is_moving = FALSE, !.last_dir[pr.carriage] = Zero, !.last_feed = 0],
         out |-> <<s>>,
         ret |-> s.ret]

\* Printer.jog, the test "only (re)issue when direction or feed changed"
jog_unchanged(pr, dir_tuple, feedrate) ==
    dir_tuple = pr.last_dir[pr.carriage] /\ feedrate = pr.last_feed

\* Printer.jog
jog_mut(pr, vx, vy, vz, feedrate, ackStop, ackJog) ==
    LET dir_tuple == <<Sgn(vx), Sgn(vy), Sgn(vz)>>
        g1  == send_gcode(pr, Cmd("G1", pr.carriage, dir_tuple, Max(1, feedrate)), TRUE, ackJog)
    IN  IF ~pr.connected THEN [pr |-> pr, out |-> <<>>, ret |-> FALSE]
        ELSE IF dir_tuple = Zero \/ feedrate <= 0 THEN stop_jog(pr, ackStop)
        ELSE IF jog_unchanged(pr, dir_tuple, feedrate) THEN [pr |-> pr, out |-> <<>>, ret |-> TRUE]
        ELSE [pr  |-> IF g1.ret
                      THEN [pr EXCEPT !.is_moving = TRUE, !.last_dir[pr.carriage] = dir_tuple, !.last_feed = feedrate]
                      ELSE [pr EXCEPT !.is_moving = FALSE],
              out |-> <<g1>>,
              ret |-> g1.ret]
jog(pr, vx, vy, vz, feedrate, ackStop, ackJog) ==
    LET dir_tuple == <<Sgn(vx), Sgn(vy), Sgn(vz)>>
        pre == IF pr.is_moving THEN <<send_gcode(pr, Plain("M410"), FALSE, ackStop)>> ELSE <<>>
        g1  == send_gcode(pr, Cmd("G1", pr.carriage, dir_tuple, Max(1, feedrate)), TRUE, ackJog)
    IN  IF ~pr.connected THEN [pr |-> pr, out |-> <<>>, ret |-> FALSE]
        ELSE IF dir_tuple = Zero \/ feedrate <= 0 THEN stop_jog(pr, ackStop)
        ELSE IF jog_unchanged(pr, dir_tuple, feedrate) THEN [pr |-> pr, out |-> <<>>, ret |-> TRUE]
        ELSE [pr  |-> IF g1.ret
                      THEN [pr EXCEPT !.is_moving = TRUE, !.last_dir[pr.carriage] = dir_tuple, !.last_feed = feedrate]
                      ELSE [pr EXCEPT !.is_moving = FALSE],
              out |-> pre \o <<g1>>,
              ret |-> g1.ret]

\* Printer.home_xy
home_xy(pr, ack) == send_gcode(pr, Plain("G28"), TRUE, ack)

\* Printer.move_relative: nothing is sent for a delta of zero on every axis; else one
\* script "G91 / G1 <axes of the selected carriage> F<feedrate>", waiting for ok
move_relative(pr, dx, dy, dz, feedrate, ack) ==
    IF <<dx, dy, dz>> = Zero
    THEN [out |-> <<>>, ret |-> TRUE]
    ELSE LET s == send_gcode(pr, Cmd("G91 G1", pr.carriage, <<dx, dy, dz>>, Max(1, feedrate)), TRUE, ack)
         IN  [out |-> <<s>>, ret |-> s.ret]

\* Printer.emergency_stop
printer_emergency_stop_mut(pr) == send_gcode(pr, Plain("M112"), TRUE, TRUE)
printer_emergency_stop(pr) == send_gcode(pr, Plain("M112"), FALSE, FALSE)

\* Printer.connect, the port opened: connected, then G21, G91, M114
printer_connect_ok(pr, ack) ==
    LET p1 == [pr EXCEPT !.ser = TRUE, !.connected = TRUE]
    IN  [pr  |-> p1,
         out |-> <<send_gcode(p1, Plain("G21"), TRUE, ack), send_gcode(p1, Plain("G91"), TRUE, ack), send_gcode(p1, Plain("M114"), TRUE, ack)>>,
         ret |-> TRUE]

\* Printer.connect, serial.Serial raised
printer_connect_fail(pr) ==
    [pr |-> [pr EXCEPT !.ser = FALSE, !.connected = FALSE], out |-> <<>>, ret |-> FALSE]

\* Printer.disconnect
printer_disconnect(pr) == [pr EXCEPT !.ser = FALSE, !.connected = FALSE]

(***************************************************************************)
(* Part I.b  FlexAlignerGUI (include/gui.py), controller input mode        *)
(***************************************************************************)
ZeroVel == [a \in Axes |-> 0]

\* tick_in when the last operation was not a tick
NoTickIn == [dir |-> Zero, feed |-> 0, btns |-> {}, conn |-> FALSE]

\* FlexAlignerGUI._read_joystick: axis 3 sets the speed slider (throttled updates)
slider_speed(pct) == base_speed + (pct * (slider_top_speed - base_speed)) \div 100
read_joystick(pct, ms, sv) ==
    IF Abs(sv - slider_speed(pct)) > slider_update_threshold
    THEN [max_speed |-> slider_speed(pct), speed_var |-> slider_speed(pct)]
    ELSE [max_speed |-> ms, speed_var |-> sv]

\* the speed slider's first value, FlexAlignerGUI._build_gui
initial_speed_guess(pct) == base_speed + (pct * (config_max_speed - base_speed)) \div 100

\* FlexAlignerGUI._dir_and_feed_from_joystick
dir_and_feed_from_joystick(ax0, ax1, hat, ms) ==
    LET dz  == Sgn(-hat)
        dx0 == IF ax0 > deadzone_pct THEN 1 ELSE IF ax0 < -deadzone_pct THEN -1 ELSE 0
        dy0 == IF ax1 > deadzone_pct THEN 1 ELSE IF ax1 < -deadzone_pct THEN -1 ELSE 0
        dx  == IF Abs(ax0) > Abs(ax1) THEN dx0 ELSE 0
        dy  == IF Abs(ax0) > Abs(ax1) THEN 0 ELSE dy0
    IN  [dir |-> <<dx, dy, dz>>, feed |-> IF dz # 0 THEN (ms * 33) \div 100 ELSE ms]

\* FlexAlignerGUI._components_from_dir_and_feed (1/sqrt(n) as 1, 0.707, 0.577)
components_from_dir_and_feed(dir, feed) ==
    LET n == Abs(dir[1]) + Abs(dir[2]) + Abs(dir[3])
        per == IF n = 1 THEN feed ELSE IF n = 2 THEN (feed * 707) \div 1000 ELSE (feed * 577) \div 1000
    IN  IF n = 0 \/ feed <= 0 THEN Zero ELSE <<dir[1] * per, dir[2] * per, dir[3] * per>>

\* (v / 60.0) * dt, in whole mm, dt in ms
PosDelta(v, dt) == Sgn(v) * ((Abs(v) * dt) \div 60000)

\* FlexAlignerGUI._integrate_positions
integrate_positions(pos, sel, dt, v) ==
    IF sel = 1
    THEN [pos EXCEPT !["x"] = @ + PosDelta(v[1], dt), !["y"] = @ + PosDelta(v[2], dt), !["z"] = @ + PosDelta(v[3], dt)]
    ELSE [pos EXCEPT !["a"] = @ + PosDelta(v[1], dt), !["b"] = @ + PosDelta(v[2], dt), !["c"] = @ + PosDelta(v[3], dt)]

\* FlexAlignerGUI._set_display_velocities
set_display_velocities(sel, v) ==
    IF sel = 1
    THEN [ZeroVel EXCEPT !["x"] = v[1], !["y"] = v[2], !["z"] = v[3]]
    ELSE [ZeroVel EXCEPT !["a"] = v[1], !["b"] = v[2], !["c"] = v[3]]

\* FlexAlignerGUI._handle_joystick_buttons, button 0: home XY
button_home(g, ack) ==
    LET s == stop_jog(set_carriage(g.pr, 1), ack)
    IN  [g EXCEPT !.pr = s.pr,
                  !.out = g.out \o s.out \o <<home_xy(s.pr, ack)>>,
                  !.pos = [g.pos EXCEPT !["x"] = 0, !["y"] = 0]]

\* FlexAlignerGUI._handle_joystick_buttons, button 1: toggle carriage 1 <-> 2
button_toggle(g, ack) ==
    LET s == stop_jog(g.pr, ack)
    IN  [g EXCEPT !.sel = IF g.sel = 1 THEN 2 ELSE 1,
                  !.vel = ZeroVel,
                  !.pr = s.pr,
                  !.out = g.out \o s.out]

\* selected_row_index when no row is selected
None == -1

\* the tuple appended by "save position": (x, y, z, a, b, c) of the position estimate
snapshot(pos) == <<pos["x"], pos["y"], pos["z"], pos["a"], pos["b"], pos["c"]>>

\* FlexAlignerGUI._add_row: a row for positions_list[current_row_index], its click
\* bound to that index (an IndexError if there is no such entry: no row is added)
add_row(g) ==
    IF g.cri < Len(g.lst)
    THEN [g EXCEPT !.rows = Append(g.rows, g.cri), !.cri = g.cri + 1]
    ELSE g

\* FlexAlignerGUI._rebuild_table: all rows destroyed, one _add_row per entry,
\* the selection cleared
RECURSIVE add_rows(_, _)
add_rows(g, n) == IF n = 0 THEN g ELSE add_rows(add_row(g), n - 1)

rebuild_table_mut(g) ==
    add_rows([g EXCEPT !.rows = <<>>, !.cri = 0], Len(g.lst))
rebuild_table(g) ==
    [add_rows([g EXCEPT !.rows = <<>>, !.cri = 0], Len(g.lst)) EXCEPT !.sri = None]

\* list.pop(i), 0-based
list_pop_mut(lst, i) == SubSeq(lst, 1, Len(lst) - 1)
list_pop(lst, i) == SubSeq(lst, 1, i) \o SubSeq(lst, i + 2, Len(lst))

\* FlexAlignerGUI._remove_selected_pos
remove_selected_pos(g) ==
    IF g.sri = None THEN g
    ELSE rebuild_table([g EXCEPT !.lst = list_pop(g.lst, g.sri)])

\* FlexAlignerGUI._clear_pos_list
clear_pos_list(g) == rebuild_table([g EXCEPT !.lst = <<>>])

\* FlexAlignerGUI._add_row, _on_click of the row bound to row_index
on_click(g, row_index) == [g EXCEPT !.sri = row_index]

\* FlexAlignerGUI._handle_joystick_buttons, button 2: save position
button_save(g) == add_row([g EXCEPT !.lst = Append(g.lst, snapshot(g.pos))])

\* FlexAlignerGUI.goto_saved_position: per carriage, select it, stop, one relative
\* move by (snapshot - estimate) at config.max_speed, then the estimate of that
\* carriage is set to the snapshot
goto_saved_position(g, ms, ackStop, ackGoto) ==
    LET pos == g.lst[g.sri + 1]
        s1  == stop_jog(set_carriage(g.pr, 1), ackStop)
        m1  == move_relative(s1.pr, pos[1] - g.pos["x"], pos[2] - g.pos["y"], pos[3] - g.pos["z"], ms, ackGoto[1])
        s2  == stop_jog(set_carriage(s1.pr, 2), ackStop)
        m2  == move_relative(s2.pr, pos[4] - g.pos["a"], pos[5] - g.pos["b"], pos[6] - g.pos["c"], ms, ackGoto[2])
    IN  [g EXCEPT !.pr = s2.pr,
                  !.out = g.out \o s1.out \o m1.out \o s2.out \o m2.out,
                  !.pos = [a \in Axes |-> CASE a = "x" -> pos[1] [] a = "y" -> pos[2] [] a = "z" -> pos[3]
                                             [] a = "a" -> pos[4] [] a = "b" -> pos[5] [] a = "c" -> pos[6]]]

\* FlexAlignerGUI._handle_joystick_buttons, button 4: goto selected position
goto_guard(g) == g.sri # None /\ g.sri < Len(g.lst)
button_goto(g, ms, ackStop, ackGoto) ==
    IF goto_guard(g) THEN goto_saved_position(g, ms, ackStop, ackGoto) ELSE g

\* FlexAlignerGUI._handle_joystick_buttons (buttons 0, 1, 2 and 4, in this order)
handle_joystick_buttons(g, btns, ack, ms, ackGoto) ==
    LET g1 == IF "home" \in btns THEN button_home(g, ack) ELSE g
        g2 == IF "toggle" \in btns THEN button_toggle(g1, ack) ELSE g1
        g3 == IF "save" \in btns THEN button_save(g2) ELSE g2
    IN  IF "goto" \in btns THEN button_goto(g3, ms, ack, ackGoto) ELSE g3

\* FlexAlignerGUI._execute_jog: the two change tests
changed_dir(dir_tuple, last_dir) == dir_tuple # last_dir
changed_feed_mut(feed, last_feed) == Abs(feed - last_feed) > slider_update_threshold
changed_feed(feed, last_feed) == Abs(feed - last_feed) > feed_resend_threshold

\* FlexAlignerGUI._execute_jog
execute_jog(g, dt, dir_tuple, feed0, ackStop, ackJog) ==
    LET feed     == Max(0, feed0)
        pr0      == set_carriage(g.pr, g.sel)
        last_dir == g.lds[g.sel]
        last_feed == g.lfs[g.sel]
        v        == components_from_dir_and_feed(dir_tuple, feed)
        s        == stop_jog(pr0, ackStop)
        j        == jog(pr0, Sgn(dir_tuple[1]), Sgn(dir_tuple[2]), Sgn(dir_tuple[3]), Max(1, feed), ackStop, ackJog)
    IN  IF dir_tuple = Zero \/ feed < velocity_stop_threshold
        THEN IF last_dir # Zero
             THEN [g EXCEPT !.pr = s.pr, !.out = g.out \o s.out,
                            !.lds[g.sel] = Zero, !.lfs[g.sel] = 0,
                            !.vel = set_display_velocities(g.sel, Zero)]
             ELSE [g EXCEPT !.pr = pr0, !.vel = set_display_velocities(g.sel, Zero)]
        ELSE IF changed_dir(dir_tuple, last_dir) \/ changed_feed(feed, last_feed)
             THEN [g EXCEPT !.pr = j.pr, !.out = g.out \o j.out,
                            !.lds[g.sel] = dir_tuple, !.lfs[g.sel] = feed,
                            !.pos = integrate_positions(g.pos, g.sel, dt, v),
                            !.vel = set_display_velocities(g.sel, v)]
             ELSE [g EXCEPT !.pr = pr0,
                            !.pos = integrate_positions(g.pos, g.sel, dt, v),
                            !.vel = set_display_velocities(g.sel, v)]

\* FlexAlignerGUI._loop_iteration, the closing test: stop_jog(block=False) is a
\* TypeError (Printer.stop_jog takes no argument), raised before _schedule_loop
tail_raises(dir_tuple, pr) == dir_tuple = Zero /\ pr.is_moving

\* FlexAlignerGUI._loop_iteration
loop_iteration(ax0, ax1, hat, pct, btns, dt, ackStop, ackJog, ackGoto) ==
    /\ running /\ scheduled
    /\ \E rj \in {read_joystick(pct, max_speed, speed_var)} :
       \E df \in {dir_and_feed_from_joystick(ax0, ax1, hat, rj.max_speed)} :
       \E g1 \in {handle_joystick_buttons([pr |-> printer, sel |-> selected_carriage, lds |-> last_dir_sent, lfs |-> last_feed_sent, pos |-> positions, vel |-> current_vel, out |-> <<>>, lst |-> positions_list, rows |-> row_list, cri |-> current_row_index, sri |-> selected_row_index], btns, ackStop, rj.max_speed, ackGoto)} :
       \E g2 \in {IF connected THEN execute_jog(g1, dt, df.dir, df.feed, ackStop, ackJog) ELSE g1} :
           /\ \A a \in Axes : Abs(g2.pos[a]) <= MaxPos
           /\ max_speed' = rj.max_speed
           /\ speed_var' = rj.speed_var
           /\ printer' = g2.pr
           /\ selected_carriage' = g2.sel
           /\ last_dir_sent' = g2.lds
           /\ last_feed_sent' = g2.lfs
           /\ positions' = g2.pos
           /\ current_vel' = g2.vel
           /\ out' = g2.out
           /\ tick_in' = [dir |-> df.dir, feed |-> df.feed, btns |-> btns, conn |-> connected]
           /\ positions_list' = g2.lst
           /\ row_list' = g2.rows
           /\ current_row_index' = g2.cri
           /\ selected_row_index' = g2.sri
           /\ scheduled' = ~tail_raises(df.dir, g2.pr)
    /\ op' = "tick"
    /\ UNCHANGED non_panel_vars
    /\ UNCHANGED <<connected, running>>

Tick ==
    \E ax0 \in Axis0Vals, ax1 \in Axis1Vals, hat \in HatVals, pct \in SpeedPcts, btns \in ButtonSets, dt \in TickDts, ackStop \in BOOLEAN, ackJog \in BOOLEAN :
        loop_iteration(ax0, ax1, hat, pct, btns, dt, ackStop, ackJog, <<TRUE, TRUE>>)

\* FlexAlignerGUI.connect, Printer.connect succeeding
Connect ==
    /\ running /\ ~connected
    /\ \E ack \in BOOLEAN :
        LET c == printer_connect_ok(printer, ack)
        IN  printer' = c.pr /\ out' = c.out
    /\ connected' = TRUE
    /\ op' = "connect"
    /\ UNCHANGED non_gui_vars
    /\ UNCHANGED <<running, scheduled, selected_carriage, last_dir_sent, last_feed_sent, max_speed, speed_var, positions, current_vel>>
    /\ tick_in' = NoTickIn

\* FlexAlignerGUI.connect, Printer.connect failing
ConnectFail ==
    /\ running /\ ~connected
    /\ printer' = printer_connect_fail(printer).pr
    /\ out' = <<>>
    /\ op' = "connect_failed"
    /\ UNCHANGED non_gui_vars
    /\ UNCHANGED <<connected, running, scheduled, selected_carriage, last_dir_sent, last_feed_sent, max_speed, speed_var, positions, current_vel>>
    /\ tick_in' = NoTickIn

\* FlexAlignerGUI.disconnect
gui_disconnect(conn, pr) == IF conn THEN printer_disconnect(pr) ELSE pr

Disconnect ==
    /\ running /\ connected
    /\ printer' = gui_disconnect(connected, printer)
    /\ connected' = FALSE
    /\ out' = <<>>
    /\ op' = "disconnect"
    /\ UNCHANGED non_gui_vars
    /\ UNCHANGED <<running, scheduled, selected_carriage, last_dir_sent, last_feed_sent, max_speed, speed_var, positions, current_vel>>
    /\ tick_in' = NoTickIn

\* FlexAlignerGUI.reset_velocities
reset_velocities(vel) == [a \in Axes |-> 0]

ResetVelocities ==
    /\ running
    /\ current_vel' = reset_velocities(current_vel)
    /\ out' = <<>>
    /\ op' = "reset_velocities"
    /\ UNCHANGED non_gui_vars
    /\ UNCHANGED <<printer, connected, running, scheduled, selected_carriage, last_dir_sent, last_feed_sent, max_speed, speed_var, positions>>
    /\ tick_in' = NoTickIn

\* FlexAlignerGUI.emergency_stop: the halt commands it sends
estop_sends(conn, pr) == IF conn THEN <<printer_emergency_stop(pr)>> ELSE <<>>

EmergencyStop ==
    /\ running
    /\ current_vel' = reset_velocities(current_vel)
    /\ out' = estop_sends(connected, printer)
    /\ op' = "emergency_stop"
    /\ UNCHANGED non_gui_vars
    /\ UNCHANGED <<printer, connected, running, scheduled, selected_carriage, last_dir_sent, last_feed_sent, max_speed, speed_var, positions>>
    /\ tick_in' = NoTickIn

\* FlexAlignerGUI._on_close
Close ==
    /\ running
    /\ running' = FALSE
    /\ printer' = gui_disconnect(connected, printer)
    /\ connected' = FALSE
    /\ out' = <<>>
    /\ op' = "close"
    /\ UNCHANGED non_gui_vars
    /\ UNCHANGED <<scheduled, selected_carriage, last_dir_sent, last_feed_sent, max_speed, speed_var, positions, current_vel>>
    /\ tick_in' = NoTickIn

\* FlexAlignerGUI._move_step: a discrete move of the selected carriage by inc mm along
\* X/A or Y/B; a running jog is stopped first (when Printer.is_moving)
StepIncs == {1}
StepAxes == {"x"}
StepSigns == {1}
move_step(g, conn, axis, sign, inc, ms, ackStop, ackMove) ==
    IF inc <= 0 \/ ~conn THEN g
    ELSE LET s   == IF g.pr.is_moving THEN stop_jog(g.pr, ackStop) ELSE [pr |-> g.pr, out |-> <<>>]
             pr1 == set_carriage(s.pr, g.sel)
             dx  == IF axis = "x" THEN sign * inc ELSE 0
             dy  == IF axis = "y" THEN sign * inc ELSE 0
             m   == move_relative(pr1, dx, dy, 0, ms, ackMove)
             ax  == IF g.sel = 1 THEN <<"x", "y">> ELSE <<"a", "b">>
         IN  [g EXCEPT !.pr = pr1,
                       !.out = s.out \o m.out,
                       !.pos = IF m.ret
                               THEN [g.pos EXCEPT ![ax[1]] = @ + dx, ![ax[2]] = @ + dy]
                               ELSE g.pos]

MoveStep ==
    /\ running
    /\ \E axis \in StepAxes, sign \in StepSigns, inc \in StepIncs, ackStop \in BOOLEAN, ackMove \in BOOLEAN :
       \E g \in {move_step([pr |-> printer, sel |-> selected_carriage, pos |-> positions, out |-> <<>>],
                           connected, axis, sign, inc, max_speed, ackStop, ackMove)} :
           /\ \A a \in Axes : Abs(g.pos[a]) <= MaxPos
           /\ printer' = g.pr
           /\ positions' = g.pos
           /\ out' = g.out
    /\ op' = "move_step"
    /\ tick_in' = NoTickIn
    /\ UNCHANGED <<connected, running, scheduled, selected_carriage, last_dir_sent, last_feed_sent, max_speed, speed_var, current_vel>>
    /\ UNCHANGED non_gui_vars

\* the saved-position store as the record the table operations work on
store == [lst |-> positions_list, rows |-> row_list, cri |-> current_row_index, sri |-> selected_row_index]

set_store(g) ==
    /\ positions_list' = g.lst
    /\ row_list' = g.rows
    /\ current_row_index' = g.cri
    /\ selected_row_index' = g.sri

\* a table operation touches nothing of the jog engine
panel_frame(name) ==
    /\ op' = name
    /\ out' = <<>>
    /\ tick_in' = NoTickIn
    /\ UNCHANGED <<printer, connected, running, scheduled, selected_carriage, last_dir_sent, last_feed_sent, max_speed, speed_var, positions, current_vel>>
    /\ UNCHANGED non_panel_vars

\* a click on a table row: _on_click with the index bound by _add_row
OnClick ==
    /\ running
    /\ \E r \in DOMAIN row_list : set_store(on_click(store, row_list[r]))
    /\ panel_frame("click")

\* the "Remove Selected" button
RemoveSelected ==
    /\ running
    /\ set_store(remove_selected_pos(store))
    /\ panel_frame(IF selected_row_index = None THEN "remove_none" ELSE "remove")

\* the "Clear All" button
ClearAll ==
    /\ running
    /\ set_store(clear_pos_list(store))
    /\ panel_frame("clear")

\* FlexAlignerGUI.__init__, the saved-position store
SvInit ==
    /\ positions_list = <<>>
    /\ row_list = <<>>
    /\ current_row_index = 0
    /\ selected_row_index = None

\* FlexAlignerGUI.__init__
GuiInit ==
    /\ printer = PrinterInit
    /\ connected = FALSE
    /\ running = TRUE
    /\ scheduled = TRUE
    /\ selected_carriage = 1
    /\ last_dir_sent = [c \in Carriages |-> Zero]
    /\ last_feed_sent = [c \in Carriages |-> 0]
    /\ max_speed = config_max_speed
    /\ speed_var \in {initial_speed_guess(p) : p \in InitSpeedPcts}
    /\ positions = [a \in Axes |-> 0]
    /\ current_vel = ZeroVel
    /\ op = "init"
    /\ tick_in = NoTickIn
    /\ out = <<>>

(***************************************************************************)
(* Part II  AsyncWebSocketClient (include/AsyncWebClient.py)               *)
(***************************************************************************)
\* request ids handed out in one run
MaxRequests == 3

\* the coroutines of AsyncSmoothJoystickController that call the client
\* concurrently: smooth_jog_loop, periodic_position_update, and the coroutine a
\* button callback submits (emergency stop, home, goto, calibration)
Callers == {"jog_loop", "position_update", "callback"}
Kinds == {"send_gcode", "send_gcode_and_wait"}
\* the public calls each of them makes
CallerKinds(c) ==
    IF c = "jog_loop" THEN {"send_gcode"}
    ELSE IF c = "position_update" THEN {"send_gcode_and_wait"}
    ELSE Kinds
\* what a response carries: result ok, error code 400
Payloads == {"ok", "e400"}
\* the id an inbound message carries: 0 stands for a message without an id
RxIds == 0..(MaxRequests + 1)

NoData == [id |-> 0, payload |-> "none"]
Ret(tag, data) == [tag |-> tag, data |-> data]
NoRet == Ret("none", NoData)
IdleCall == [pc |-> "idle", kind |-> "none", id |-> 0, fut |-> "none", data |-> NoData]
\* a caller whose coroutine ended with CancelledError
CancelledCall == [pc |-> "cancelled", kind |-> "none", id |-> 0, fut |-> "none", data |-> NoData]
NoEv == [op |-> "init", c |-> "none", kind |-> "none", id |-> 0, ret |-> NoRet]
Ev(o, c, kind, id, ret) == [op |-> o, c |-> c, kind |-> kind, id |-> id, ret |-> ret]

\* dict.pop(key, None)
Pop(m, k) == [j \in DOMAIN m \ {k} |-> m[j]]

\* AsyncWebSocketClient.send_request: "if not self.connected or not self.websocket: raise"
send_request_refused(conn, ws) == ~conn \/ ws = "none"

\* AsyncWebSocketClient.send_request: self.message_id += 1
next_message_id_mut(m) == m
next_message_id(m) == m + 1

\* AsyncWebSocketClient.send_request, except asyncio.TimeoutError: pending_requests.pop(request_id, None)
timeout_cleanup_mut(pend, id) == Pop(pend, IF DOMAIN pend = {} THEN id ELSE CHOOSE k \in DOMAIN pend : \A j \in DOMAIN pend : k <= j)
timeout_cleanup(pend, id) == Pop(pend, id)

\* "except Exception" catches exc: asyncio.CancelledError derives from BaseException
except_Exception_catches(exc) == exc # "CancelledError"

\* the value a public call returns from its "except Exception" clause
on_exception_mut(kind) == Ret("False", NoData)
on_exception(kind) ==
    IF kind = "send_gcode" THEN Ret("False", NoData) ELSE Ret("None", NoData)

\* the value a public call returns for a response
on_response(kind, data) ==
    IF kind = "send_gcode"
    THEN IF data.payload = "ok" THEN Ret("True", NoData)
         ELSE IF data.payload = "e400" THEN Ret("400", NoData)
         ELSE Ret("None", NoData)
    ELSE Ret("response", data)

\* AsyncWebSocketClient.disconnect: "for future in pending_requests.values(): if not future.done(): future.cancel()"
cancel_all(cl, pend) ==
    [c \in Callers |-> IF (\E k \in DOMAIN pend : pend[k] = c) /\ cl[c].fut = "pending"
                       THEN [cl[c] EXCEPT !.fut = "cancelled"] ELSE cl[c]]

\* AsyncWebSocketClient._message_handler: future.set_result(data) unless cancelled
set_result(cl, c, data) ==
    IF cl[c].fut = "pending" THEN [cl EXCEPT ![c].fut = "result", ![c].data = data] ELSE cl

\* AsyncWebSocketClient.connect, websockets.connect succeeding
WsConnect ==
    /\ ~ws_connected /\ ~disconnecting
    /\ websocket' = "open"
    /\ ws_connected' = TRUE
    /\ ev' = Ev("connect", "none", "none", 0, NoRet)
    /\ UNCHANGED <<disconnecting, message_id, pending_requests, call, issued>>
    /\ UNCHANGED non_ws_vars

\* AsyncWebSocketClient.connect, websockets.connect raising
WsConnectFail ==
    /\ ~ws_connected /\ ~disconnecting
    /\ ws_connected' = FALSE
    /\ ev' = Ev("connect_failed", "none", "none", 0, NoRet)
    /\ UNCHANGED <<websocket, disconnecting, message_id, pending_requests, call, issued>>
    /\ UNCHANGED non_ws_vars

\* AsyncWebSocketClient._message_handler, "except ConnectionClosed": the peer closed
ConnectionClosed ==
    /\ websocket = "open" /\ ~disconnecting
    /\ websocket' = "closed"
    /\ ws_connected' = FALSE
    /\ ev' = Ev("connection_closed", "none", "none", 0, NoRet)
    /\ UNCHANGED <<disconnecting, message_id, pending_requests, call, issued>>
    /\ UNCHANGED non_ws_vars

\* AsyncWebSocketClient.disconnect up to "await self.websocket.close()"; with no
\* websocket it runs to its end at once
WsDisconnectBegin ==
    /\ ~disconnecting
    /\ ws_connected' = FALSE
    /\ IF websocket # "none"
       THEN /\ disconnecting' = TRUE
            /\ ev' = Ev("disconnect_begin", "none", "none", 0, NoRet)
            /\ UNCHANGED <<pending_requests, call>>
       ELSE /\ disconnecting' = FALSE
            /\ call' = cancel_all(call, pending_requests)
            /\ pending_requests' = << >>
            /\ ev' = Ev("disconnect_done", "none", "none", 0, NoRet)
    /\ UNCHANGED <<websocket, message_id, issued>>
    /\ UNCHANGED non_ws_vars

\* AsyncWebSocketClient.disconnect after the close: cancel and clear
WsDisconnectFinish ==
    /\ disconnecting
    /\ disconnecting' = FALSE
    /\ websocket' = "none"
    /\ call' = cancel_all(call, pending_requests)
    /\ pending_requests' = << >>
    /\ ev' = Ev("disconnect_done", "none", "none", 0, NoRet)
    /\ UNCHANGED <<ws_connected, message_id, issued>>
    /\ UNCHANGED non_ws_vars

\* a public call (send_gcode, send_gcode_and_wait) entering
\* send_request: refused when not connected, else the request is registered and sent
SendRequest(c, kind) ==
    /\ call[c].pc = "idle"
    /\ IF send_request_refused(ws_connected, websocket)
       THEN /\ ev' = Ev("refused", c, kind, 0, on_exception(kind))
            /\ UNCHANGED <<message_id, pending_requests, call, issued>>
       ELSE /\ message_id <= MaxRequests
            /\ message_id' = next_message_id(message_id)
            /\ pending_requests' = (message_id :> c) @@ pending_requests
            /\ call' = [call EXCEPT ![c] = [pc |-> "waiting", kind |-> kind, id |-> message_id, fut |-> "pending", data |-> NoData]]
            /\ issued' = issued \cup {message_id}
            /\ ev' = Ev("send", c, kind, message_id, NoRet)
    /\ UNCHANGED <<ws_connected, websocket, disconnecting>>
    /\ UNCHANGED non_ws_vars

\* AsyncWebSocketClient._message_handler, one inbound message carrying id k
Receive(k, payload) ==
    /\ websocket = "open"
    /\ IF k \in DOMAIN pending_requests
       THEN /\ pending_requests' = Pop(pending_requests, k)
            /\ call' = set_result(call, pending_requests[k], [id |-> k, payload |-> payload])
       ELSE UNCHANGED <<pending_requests, call>>
    /\ ev' = Ev("receive", "none", "none", k, NoRet)
    /\ UNCHANGED <<ws_connected, websocket, disconnecting, message_id, issued>>
    /\ UNCHANGED non_ws_vars

\* the caller wakes in "await asyncio.wait_for(future, ...)" with the future done:
\* a result is returned through the public call; a cancellation is raised as
\* CancelledError, which no "except Exception" on the way up catches
Resume(c) ==
    /\ call[c].pc = "waiting"
    /\ call[c].fut \in {"result", "cancelled"}
    /\ IF call[c].fut = "result"
       THEN /\ call' = [call EXCEPT ![c] = IdleCall]
            /\ pending_requests' = pending_requests
            /\ ev' = Ev("return", c, call[c].kind, call[c].id, on_response(call[c].kind, call[c].data))
       ELSE IF except_Exception_catches("CancelledError")
       THEN /\ call' = [call EXCEPT ![c] = IdleCall]
            /\ pending_requests' = Pop(pending_requests, call[c].id)
            /\ ev' = Ev("return", c, call[c].kind, call[c].id, on_exception(call[c].kind))
       ELSE /\ call' = [call EXCEPT ![c] = CancelledCall]
            /\ pending_requests' = pending_requests
            /\ ev' = Ev("raise", c, call[c].kind, call[c].id, Ret("CancelledError", NoData))
    /\ UNCHANGED <<ws_connected, websocket, disconnecting, message_id, issued>>
    /\ UNCHANGED non_ws_vars

\* asyncio.wait_for, the timeout elapsing with the future still pending: it
\* cancels the future and, a loop iteration later, raises TimeoutError
TimeoutFire(c) ==
    /\ call[c].pc = "waiting"
    /\ call[c].fut = "pending"
    /\ call' = [call EXCEPT ![c].pc = "timing_out", ![c].fut = "cancelled"]
    /\ ev' = Ev("timeout", c, call[c].kind, call[c].id, NoRet)
    /\ UNCHANGED <<ws_connected, websocket, disconnecting, message_id, pending_requests, issued>>
    /\ UNCHANGED non_ws_vars

\* AsyncWebSocketClient.send_request, "except asyncio.TimeoutError", and the
\* public call's "except Exception"
TimeoutHandle(c) ==
    /\ call[c].pc = "timing_out"
    /\ pending_requests' = timeout_cleanup(pending_requests, call[c].id)
    /\ call' = [call EXCEPT ![c] = IdleCall]
    /\ ev' = Ev("timeout_return", c, call[c].kind, call[c].id, on_exception(call[c].kind))
    /\ UNCHANGED <<ws_connected, websocket, disconnecting, message_id, issued>>
    /\ UNCHANGED non_ws_vars

\* AsyncWebSocketClient.__init__
WsInit ==
    /\ ws_connected = FALSE
    /\ websocket = "none"
    /\ disconnecting = FALSE
    /\ message_id = 1
    /\ pending_requests = << >>
    /\ call = [c \in Callers |-> IdleCall]
    /\ issued = {}
    /\ ev = NoEv

(***************************************************************************)
(* Part III  AsyncWebSocketClient: notifications and their handlers        *)
(***************************************************************************)
\* registrations kept in message_handlers in one run
MaxHandlers == 2

\* the callables registered: the controller's handle_printer_message and one more listener
Handlers == {"handle_printer_message", "listener"}

\* AsyncWebSocketClient.add_message_handler
add_message_handler(hs, h) == Append(hs, h)

\* AsyncWebSocketClient.remove_message_handler: list.remove drops the first occurrence
remove_message_handler(hs, h) ==
    LET at == {i \in DOMAIN hs : hs[i] = h}
        first == CHOOSE i \in at : \A j \in at : i <= j
    IN  IF at = {} THEN hs ELSE SubSeq(hs, 1, first - 1) \o SubSeq(hs, first + 1, Len(hs))

\* AsyncWebSocketClient._message_handler, "for handler in self.message_handlers:
\* try: handler(data) except Exception: print": the calls made, in order, each with
\* whether it raised.  raising: the handlers that raise on this message
call_handlers_mut(hs, raising) ==
    LET at == {i \in DOMAIN hs : hs[i] \in raising}
        first == CHOOSE i \in at : \A j \in at : i <= j
    IN  [i \in 1..(IF at = {} THEN Len(hs) ELSE first) |-> [h |-> hs[i], raised |-> hs[i] \in raising]]
RECURSIVE call_handlers(_, _)
call_handlers(hs, raising) ==
    IF hs = << >> THEN << >>
    ELSE <<[h |-> Head(hs), raised |-> Head(hs) \in raising]>> \o call_handlers(Tail(hs), raising)

AddMessageHandler(h) ==
    /\ Len(message_handlers) < MaxHandlers
    /\ message_handlers' = add_message_handler(message_handlers, h)
    /\ notified' = << >>
    /\ ev' = Ev("add_message_handler", "none", "none", 0, NoRet)
    /\ UNCHANGED <<ws_connected, websocket, disconnecting, message_id, pending_requests, call, issued>>
    /\ UNCHANGED <<gui_vars, sj_vars, ac_vars, sv_vars, fn_vars, pl_vars, gp_vars, sl_vars, tk_vars, pq_vars, jl_vars>>

RemoveMessageHandler(h) ==
    /\ message_handlers' = remove_message_handler(message_handlers, h)
    /\ notified' = << >>
    /\ ev' = Ev("remove_message_handler", "none", "none", 0, NoRet)
    /\ UNCHANGED <<ws_connected, websocket, disconnecting, message_id, pending_requests, call, issued>>
    /\ UNCHANGED <<gui_vars, sj_vars, ac_vars, sv_vars, fn_vars, pl_vars, gp_vars, sl_vars, tk_vars, pq_vars, jl_vars>>

\* AsyncWebSocketClient._message_handler, one inbound message that carries a method
\* and the id k (0: no id)
ReceiveNotification(k, raising) ==
    /\ websocket = "open"
    /\ IF k \in DOMAIN pending_requests
       THEN /\ pending_requests' = Pop(pending_requests, k)
            /\ call' = set_result(call, pending_requests[k], [id |-> k, payload |-> "ok"])
            /\ notified' = << >>
       ELSE /\ notified' = call_handlers(message_handlers, raising)
            /\ UNCHANGED <<pending_requests, call>>
    /\ ev' = Ev("notification", "none", "none", k, NoRet)
    /\ UNCHANGED <<ws_connected, websocket, disconnecting, message_id, issued, message_handlers>>
    /\ UNCHANGED <<gui_vars, sj_vars, ac_vars, sv_vars, fn_vars, pl_vars, gp_vars, sl_vars, tk_vars, pq_vars, jl_vars>>

\* AsyncWebSocketClient.__init__: self.message_handlers = []
NtInit ==
    /\ message_handlers = << >>
    /\ notified = << >>

(***************************************************************************)
(* Part IV  SmoothJoystickController (smooth_jogging_controller.py):       *)
(*          the WebSocketApp connection and its reconnection               *)
(***************************************************************************)
\* Timers and unfinished WebSocketApp threads kept in one run
MaxPending == 2
\* reconnections counted by auto_started in one run
MaxAuto == 7

max_reconnect_attempts == 5
\* min(self.reconnect_backoff, 3.0) and min(..., 3.0), in ms
backoff_cap == 3000
\* self.reconnect_backoff = 5.0 when the attempts are used up, in ms
exhausted_backoff == 5000
\* self.reconnect_backoff * 1.5 + 0.5, in ms
backoff_step == 500

Min(a, b) == IF a <= b THEN a ELSE b

\* a WebSocketApp whose run_forever has not ended
Live(app) == app \in {"connecting", "open"}

\* SmoothJoystickController.attempt_websocket_reconnection: reconnect_backoff after a started attempt
next_backoff(b) == Min((b * 3) \div 2 + backoff_step, backoff_cap)

\* SmoothJoystickController.attempt_websocket_reconnection on the controller state s.
\*   early:  time.time() - last_disconnect_time < wait_time
\*   raised: the try block raised before the old WebSocketApp was closed
attempt_websocket_reconnection(s, early, raised) ==
    IF ~s.running \/ s.connected THEN [s EXCEPT !.op = "attempt_skipped"]
    ELSE IF s.attempts >= max_reconnect_attempts
    THEN [s EXCEPT !.attempts = 0, !.backoff = exhausted_backoff, !.op = "attempts_used_up"]
    ELSE IF early /\ Min(s.backoff, backoff_cap) > 0
    THEN [s EXCEPT !.timers = @ + 1, !.op = "attempt_too_early"]
    ELSE IF raised
    THEN [s EXCEPT !.attempts = @ + 1, !.timers = @ + 1, !.op = "attempt_raised"]
    ELSE [s EXCEPT !.attempts = @ + 1,
                   !.close_pending = IF Live(s.app) THEN @ + 1 ELSE @,
                   !.app = "connecting",
                   !.backoff = next_backoff(s.backoff),
                   !.op = "attempt_started"]

\* SmoothJoystickController.on_websocket_close
on_websocket_close(s) ==
    [s EXCEPT !.connected = FALSE,
              !.timers = IF s.running /\ s.attempts < max_reconnect_attempts THEN @ + 1 ELSE @,
              !.op = "on_websocket_close"]

\* SmoothJoystickController.on_websocket_open
on_websocket_open(s) ==
    [s EXCEPT !.connected = TRUE, !.attempts = 0, !.backoff = 0, !.app = "open", !.op = "on_websocket_open"]

\* SmoothJoystickController.manual_reconnect
manual_reconnect(s) ==
    LET s1 == [s EXCEPT !.attempts = 0, !.backoff = 0,
                        !.close_pending = IF Live(s.app) THEN @ + 1 ELSE @,
                        !.app = IF s.app = "none" THEN "none" ELSE "ended",
                        !.running = TRUE]
    IN  attempt_websocket_reconnection(s1, FALSE, FALSE)

SjState ==
    [running |-> sj_running, connected |-> sj_connected, attempts |-> reconnect_attempts,
     backoff |-> reconnect_backoff, app |-> ws_app, close_pending |-> close_pending,
     timers |-> timers, op |-> sj_op]

SjBecomes(s) ==
    /\ s.timers <= MaxPending /\ s.close_pending <= MaxPending
    /\ sj_running' = s.running
    /\ sj_connected' = s.connected
    /\ reconnect_attempts' = s.attempts
    /\ reconnect_backoff' = s.backoff
    /\ ws_app' = s.app
    /\ close_pending' = s.close_pending
    /\ timers' = s.timers
    /\ sj_op' = s.op

\* SmoothJoystickController.connect (the Connect button, enabled while disconnected)
SjConnect ==
    /\ ~sj_running /\ ws_app = "none"
    /\ SjBecomes([SjState EXCEPT !.app = "connecting", !.running = TRUE, !.op = "connect"])
    /\ auto_started' = 0
    /\ UNCHANGED non_sj_vars

\* SmoothJoystickController.disconnect (the Disconnect button)
SjDisconnect ==
    /\ sj_running
    /\ SjBecomes([SjState EXCEPT !.running = FALSE, !.connected = FALSE,
                                 !.close_pending = IF Live(ws_app) THEN @ + 1 ELSE @,
                                 !.app = "none", !.op = "disconnect"])
    /\ auto_started' = 0
    /\ UNCHANGED non_sj_vars

\* the Reconnect button (enabled by connect, disabled by disconnect)
ManualReconnect ==
    /\ sj_running
    /\ \E s \in {manual_reconnect(SjState)} :
        SjBecomes([s EXCEPT !.op = "manual_reconnect"])
    /\ auto_started' = 0
    /\ UNCHANGED non_sj_vars

\* the WebSocketApp connects: run_forever calls on_open
AppOpens ==
    /\ ws_app = "connecting"
    /\ SjBecomes(on_websocket_open(SjState))
    /\ auto_started' = 0
    /\ UNCHANGED non_sj_vars

\* the WebSocketApp fails to connect or loses the connection: run_forever ends,
\* with or without a call of on_error (connected = False) before on_close
AppEnds(err) ==
    /\ Live(ws_app)
    /\ SjBecomes([SjState EXCEPT !.app = "ended", !.close_pending = @ + 1,
                                 !.connected = IF err THEN FALSE ELSE @, !.op = "app_ended"])
    /\ UNCHANGED auto_started
    /\ UNCHANGED non_sj_vars

\* an ended WebSocketApp calls on_close
AppCloses ==
    /\ close_pending > 0
    /\ SjBecomes(on_websocket_close([SjState EXCEPT !.close_pending = @ - 1]))
    /\ UNCHANGED auto_started
    /\ UNCHANGED non_sj_vars

\* a Timer fires and calls attempt_websocket_reconnection
TimerFires(early, raised) ==
    /\ timers > 0
    /\ \E s \in {attempt_websocket_reconnection([SjState EXCEPT !.timers = @ - 1], early, raised)} :
        /\ SjBecomes(s)
        /\ auto_started' = IF s.op = "attempt_started" THEN auto_started + 1 ELSE auto_started
        /\ auto_started' <= MaxAuto
    /\ UNCHANGED non_sj_vars

\* SmoothJoystickController.__init__
SjInit ==
    /\ sj_running = FALSE
    /\ sj_connected = FALSE
    /\ reconnect_attempts = 0
    /\ reconnect_backoff = 0
    /\ ws_app = "none"
    /\ close_pending = 0
    /\ timers = 0
    /\ auto_started = 0
    /\ sj_op = "init"

(***************************************************************************)
(* Part V  AsyncSmoothJoystickController                                   *)
(*         (include/AsyncSmoothJoystickController.py, SmoothJoggingConfig) *)
(*  One stick axis (x) is moved; a call of the client is awaited in a      *)
(*  state of its own and ends with one of the values Part II gives it.     *)
(***************************************************************************)
\* the estimate of x stays within this many mm
MaxTravel == 16

smooth_base_speed == 600
smooth_max_speed == 2000
smooth_deadzone_pct == 12
\* velocity_scale and movement_scale_xy, 0.5, in permille
velocity_scale_pm == 500
movement_scale_xy_pm == 500
\* velocity_smoothing, 0.1 s, in ms
velocity_smoothing_ms == 100
smooth_stop_threshold == 5
\* decay_rate = max(alpha, 0.3), in permille
min_decay_pm == 300
\* feedrate = max(100, ...)
min_feedrate == 100
\* periodic_position_update: idle for more than 2 s, more than 5 s since the last update
idle_seconds == 2
update_seconds == 5

\* joystick.get_axis(0) in percent
StickPcts == {0, 100}
\* dt = current_time - last_update_time of smooth_jog_loop, in ms
AcTickDts == {1000}

\* max_vel = base_speed * 0.2 in fine mode (SmoothJoggingConfig), permille
fine_max_vel_pm == 200
\* fine_velocity_factor of JogConfig, 1.0, permille
fine_velocity_factor_pm == 1000
\* normalized and curved are carried in units of 1/curve_unit
curve_unit == 10000

ConfigClasses == {"JogConfig", "SmoothJoggingConfig"}
cfg_base_speed(cfg) == IF cfg = "JogConfig" THEN base_speed ELSE smooth_base_speed
cfg_max_speed(cfg) == IF cfg = "JogConfig" THEN config_max_speed ELSE smooth_max_speed
cfg_deadzone_pct(cfg) == IF cfg = "JogConfig" THEN deadzone_pct ELSE smooth_deadzone_pct

\* x * pm / 1000 without leaving 32 bits
scale_pm(x, pm) == (x \div 1000) * pm + ((x % 1000) * pm) \div 1000

\* JogConfig.get_velocity_curve and SmoothJoggingConfig.get_velocity_curve:
\* stick_input in percent of full deflection, the result in 1/1000 mm/min
get_velocity_curve_mut(stick_input, fine_mode, cfg) ==
    LET normalized == Min(curve_unit, Max(0, ((Abs(stick_input) - cfg_deadzone_pct(cfg)) * curve_unit) \div (100 - cfg_deadzone_pct(cfg))))
        curved == (normalized * normalized) \div curve_unit
        full_vel == cfg_base_speed(cfg) + ((cfg_max_speed(cfg) - cfg_base_speed(cfg)) * curved) \div curve_unit
        max_vel == IF ~fine_mode THEN full_vel
                   ELSE IF cfg = "JogConfig" THEN scale_pm(full_vel, fine_velocity_factor_pm)
                   ELSE scale_pm(cfg_base_speed(cfg), fine_max_vel_pm)
        velocity == scale_pm((curved * max_vel) \div (curve_unit \div 1000), velocity_scale_pm)
    IN  IF Abs(stick_input) < cfg_deadzone_pct(cfg) THEN 0 ELSE velocity
get_velocity_curve(stick_input, fine_mode, cfg) ==
    LET normalized == Min(curve_unit, Max(0, ((Abs(stick_input) - cfg_deadzone_pct(cfg)) * curve_unit) \div (100 - cfg_deadzone_pct(cfg))))
        curved == (normalized * normalized) \div curve_unit
        full_vel == cfg_base_speed(cfg) + ((cfg_max_speed(cfg) - cfg_base_speed(cfg)) * curved) \div curve_unit
        max_vel == IF ~fine_mode THEN full_vel
                   ELSE IF cfg = "JogConfig" THEN scale_pm(full_vel, fine_velocity_factor_pm)
                   ELSE scale_pm(cfg_base_speed(cfg), fine_max_vel_pm)
        velocity == scale_pm((curved * max_vel) \div (curve_unit \div 1000), velocity_scale_pm)
    IN  IF Abs(stick_input) < cfg_deadzone_pct(cfg) THEN 0
        ELSE IF stick_input >= 0 THEN velocity ELSE -velocity

\* the target velocity of the jog loop in whole mm/min (fine mode off)
target_velocity(stick) ==
    LET v == get_velocity_curve(stick, FALSE, "SmoothJoggingConfig")
    IN  Sgn(v) * (Abs(v) \div 1000)

\* 1 - exp(-dt / tau) to the nearest permille, for whole dt / tau
alpha_pm(dt, tau) ==
    LET r == dt \div tau
    IN  IF r = 0 THEN 0 ELSE IF r >= 8 THEN 1000 ELSE <<632, 865, 950, 982, 993, 998, 999>>[r]

\* AsyncSmoothJoystickController.smooth_velocity_transition
smooth_velocity_transition_mut(cur_vel, target_vel, dt) ==
    LET decay_rate == Max(alpha_pm(dt, velocity_smoothing_ms \div 10), min_decay_pm)
        alpha == alpha_pm(dt, velocity_smoothing_ms)
    IN  IF target_vel = 0
        THEN Sgn(cur_vel) * ((Abs(cur_vel) * (1000 - decay_rate)) \div 1000)
        ELSE cur_vel + Sgn(target_vel - cur_vel) * ((alpha * Abs(target_vel - cur_vel)) \div 1000)
smooth_velocity_transition(cur_vel, target_vel, dt) ==
    LET decay_rate == Max(alpha_pm(dt, velocity_smoothing_ms \div 10), min_decay_pm)
        alpha == alpha_pm(dt, velocity_smoothing_ms)
        new_vel == IF target_vel = 0
                   THEN Sgn(cur_vel) * ((Abs(cur_vel) * (1000 - decay_rate)) \div 1000)
                   ELSE cur_vel + Sgn(target_vel - cur_vel) * ((alpha * Abs(target_vel - cur_vel)) \div 1000)
    IN  IF Abs(new_vel) < smooth_stop_threshold THEN 0 ELSE new_vel

\* execute_smooth_movement: dx = (velocity / 60.0) * dt * movement_scale_xy, whole mm
smooth_dx(v, dt) == Sgn(v) * ((Abs(v) * dt * movement_scale_xy_pm) \div 60000000)
\* execute_smooth_movement: feedrate = max(100, min(max_speed, |dx| / dt * 60))
smooth_feedrate(dx, dt) == Max(min_feedrate, Min(smooth_max_speed, (Abs(dx) * 60000) \div dt))

\* a script handed to websocket_client.send_gcode by the controller
AcCmd(name, a, b) == [name |-> name, a |-> a, b |-> b]
NoMove == AcCmd("none", 0, 0)
\* execute_smooth_movement: G1 X{dx} F{feedrate} on carriage x/y
move_gcode(dx, feedrate) == AcCmd("G1", dx, feedrate)
\* handle_success_message: SET_KINEMATIC_POSITION with positions x, y and u, v
reset_gcode(pos) == AcCmd("SET_KINEMATIC_POSITION", pos.x, pos.u)

\* the lines of a script: a G-code word and its argument
Line(name, arg) == [name |-> name, arg |-> arg]

\* execute_smooth_movement, the script of a move of the XY carriage
move_script_mut(cmd) == <<Line("G1", "xy")>>
move_script(cmd) ==
    <<Line("SET_DUAL_CARRIAGE", "x"), Line("SET_DUAL_CARRIAGE", "y"), Line("G1", "xy")>>

\* update_printer_positions, the two position queries
query_script(cmd) ==
    IF cmd.a = 1
    THEN <<Line("SET_DUAL_CARRIAGE", "x"), Line("SET_DUAL_CARRIAGE", "y"), Line("M114", "")>>
    ELSE <<Line("SET_DUAL_CARRIAGE", "x2"), Line("SET_DUAL_CARRIAGE", "y2"), Line("M114", "")>>

\* handle_success_message, the kinematic-position reset
reset_script(cmd) ==
    <<Line("SET_DUAL_CARRIAGE", "x"), Line("SET_DUAL_CARRIAGE", "y"), Line("SET_KINEMATIC_POSITION", "xy"),
      Line("SET_DUAL_CARRIAGE", "x2"), Line("SET_DUAL_CARRIAGE", "y2"), Line("SET_KINEMATIC_POSITION", "uv")>>

\* the text of a script handed to send_gcode, line by line
script_lines(cmd) ==
    CASE cmd.name = "G1" -> move_script(cmd)
      [] cmd.name = "M114" -> query_script(cmd)
      [] cmd.name = "SET_KINEMATIC_POSITION" -> reset_script(cmd)
      [] OTHER -> <<Line(cmd.name, "")>>

\* the printer's side of SET_DUAL_CARRIAGE CARRIAGE=<c>: which carriage (1: x / y,
\* 2: x2 / y2) serves the X axis and which the Y axis
DualCarriageStates == [x : Carriages, y : Carriages]
set_dual_carriage(dc, c) ==
    CASE c = "x" -> [dc EXCEPT !.x = 1]
      [] c = "x2" -> [dc EXCEPT !.x = 2]
      [] c = "y" -> [dc EXCEPT !.y = 1]
      [] c = "y2" -> [dc EXCEPT !.y = 2]

run_line(dc, l) == IF l.name = "SET_DUAL_CARRIAGE" THEN set_dual_carriage(dc, l.arg) ELSE dc

\* a script runs as a whole, line after line; scripts run in the order they were sent
RECURSIVE run_lines(_, _)
run_lines(dc, lines) == IF lines = << >> THEN dc ELSE run_lines(run_line(dc, Head(lines)), Tail(lines))

RECURSIVE klipper_after(_, _)
klipper_after(dc, cmds) ==
    IF cmds = << >> THEN dc ELSE klipper_after(run_lines(dc, script_lines(Head(cmds))), Tail(cmds))

\* the carriages serving X and Y at each G1 line of a script that starts in state dc
RECURSIVE g1_carriages(_, _)
g1_carriages(dc, lines) ==
    IF lines = << >> THEN {}
    ELSE (IF Head(lines).name = "G1" THEN {dc} ELSE {}) \cup g1_carriages(run_line(dc, Head(lines)), Tail(lines))

AcEv(o, result, sent, shown) == [op |-> o, result |-> result, sent |-> sent, shown |-> shown]

\* what an awaited call of the client ends with: a response while the connection
\* is open, or the timeout of send_request
Outcomes(kind, ws) ==
    (IF ws = "open" THEN {on_response(kind, [id |-> 0, payload |-> p]) : p \in Payloads} ELSE {})
        \cup {on_exception(kind)}

Awaiting(pc) == pc \in {"await_move", "await_reset", "await_xy", "await_uv"}

\* AsyncWebSocketClient.disconnect cancels the futures: a task awaiting one ends
\* with CancelledError unless "except Exception" catches it
after_cancel(pc) ==
    IF Awaiting(pc)
    THEN IF except_Exception_catches("CancelledError") THEN "sleep" ELSE "dead"
    ELSE pc

\* the "while" test of a task fails at its next turn
after_stop(pc) == IF pc \in {"sleep", "pause"} THEN "off" ELSE pc

\* handle_success_message after the value of send_gcode for the move is known.
\*   refused: send_request raises at once ("not connected")
handle_success_message(success, pos, refused) ==
    IF success.tag = "400"
    THEN IF refused
         THEN [pc |-> "sleep", sent |-> <<reset_gcode(pos)>>, shown |-> "Homing Error"]
         ELSE [pc |-> "await_reset", sent |-> <<reset_gcode(pos)>>, shown |-> "none"]
    ELSE IF success.tag = "True"
    THEN [pc |-> "sleep", sent |-> << >>, shown |-> "none"]
    ELSE [pc |-> "sleep", sent |-> << >>, shown |-> "Unknown error"]

\* handle_success_message after the value of send_gcode for the reset is known
after_reset(success) ==
    IF success.tag # "True" THEN "Homing Error" ELSE "none"

\* smooth_jog_loop, one iteration up to its first await of a response
AcJogTick(stick, dt) ==
    /\ ac_running /\ jog_pc = "sleep"
    /\ IF ~ac_connected
       THEN /\ ac_ev' = AcEv("jog_skip", "none", << >>, "none")
            /\ UNCHANGED <<jog_pc, jog_move, current_velocity, ac_positions, since_movement>>
       ELSE \E v \in {smooth_velocity_transition(current_velocity, target_velocity(stick), dt)} :
            \E dx \in {smooth_dx(v, dt)} :
                /\ current_velocity' = v
                /\ IF Abs(v) > smooth_stop_threshold /\ dx # 0
                   THEN /\ Abs(ac_positions.x + dx) <= MaxTravel
                        /\ ac_positions' = [ac_positions EXCEPT !.x = @ + dx]
                        /\ since_movement' = 0
                        /\ IF send_request_refused(ws_connected, websocket)
                           THEN \E h \in {handle_success_message(on_exception("send_gcode"), ac_positions', TRUE)} :
                                    /\ jog_pc' = h.pc
                                    /\ jog_move' = NoMove
                                    /\ ac_ev' = AcEv("jog_move", "False", <<move_gcode(dx, smooth_feedrate(dx, dt))>>, h.shown)
                           ELSE /\ jog_pc' = "await_move"
                                /\ jog_move' = move_gcode(dx, smooth_feedrate(dx, dt))
                                /\ ac_ev' = AcEv("jog_move", "none", <<move_gcode(dx, smooth_feedrate(dx, dt))>>, "none")
                   ELSE /\ ac_ev' = AcEv("jog_still", "none", << >>, "none")
                        /\ UNCHANGED <<jog_pc, jog_move, ac_positions, since_movement>>
    /\ UNCHANGED <<ac_running, ac_connected, pos_pc, since_update>>
    /\ UNCHANGED ws_vars
    /\ dual_carriage' = IF ac_ev'.op = "jog_move" /\ ac_ev'.result = "none" THEN klipper_after(dual_carriage, ac_ev'.sent) ELSE dual_carriage
    /\ dc_before' = dual_carriage
    /\ UNCHANGED non_ac_vars

\* smooth_jog_loop: send_gcode of the move ends with r, handle_success_message runs
AcJogMoveDone(r) ==
    /\ jog_pc = "await_move"
    /\ \E h \in {handle_success_message(r, ac_positions, send_request_refused(ws_connected, websocket))} :
        /\ jog_pc' = IF ac_running THEN h.pc ELSE after_stop(h.pc)
        /\ jog_move' = IF h.pc = "await_reset" THEN jog_move ELSE NoMove
        /\ ac_ev' = AcEv("move_done", r.tag, h.sent, h.shown)
    /\ UNCHANGED <<ac_running, ac_connected, pos_pc, current_velocity, ac_positions, since_movement, since_update>>
    /\ UNCHANGED ws_vars
    /\ dual_carriage' = IF jog_pc' = "await_reset" THEN klipper_after(dual_carriage, ac_ev'.sent) ELSE dual_carriage
    /\ dc_before' = dual_carriage
    /\ UNCHANGED non_ac_vars

\* smooth_jog_loop: send_gcode of the kinematic-position reset ends with r
AcJogResetDone(r) ==
    /\ jog_pc = "await_reset"
    /\ jog_pc' = IF ac_running THEN "sleep" ELSE "off"
    /\ jog_move' = NoMove
    /\ ac_ev' = AcEv("reset_done", r.tag, << >>, after_reset(r))
    /\ UNCHANGED <<ac_running, ac_connected, pos_pc, current_velocity, ac_positions, since_movement, since_update>>
    /\ UNCHANGED ws_vars
    /\ UNCHANGED dual_carriage
    /\ dc_before' = dual_carriage
    /\ UNCHANGED non_ac_vars

\* periodic_position_update: the test before update_printer_positions
update_due(v, idle, due) ==
    /\ Abs(v) < smooth_stop_threshold
    /\ idle > idle_seconds
    /\ due > update_seconds

\* periodic_position_update, one turn of the loop up to the first query
AcPosCheck ==
    /\ pos_pc = "sleep"
    /\ IF ~(ac_running /\ ac_connected)
       THEN /\ pos_pc' = "off"
            /\ ac_ev' = AcEv("pos_exit", "none", << >>, "none")
            /\ UNCHANGED since_update
       ELSE /\ update_due(current_velocity, since_movement, since_update)
            /\ pos_pc' = IF send_request_refused(ws_connected, websocket) THEN "pause" ELSE "await_xy"
            /\ since_update' = 0
            /\ ac_ev' = AcEv("pos_query_xy", "none", <<AcCmd("M114", 1, 0)>>, "none")
    /\ UNCHANGED <<ac_running, ac_connected, jog_pc, jog_move, current_velocity, ac_positions, since_movement>>
    /\ UNCHANGED ws_vars
    /\ dual_carriage' = IF pos_pc' = "await_xy" THEN klipper_after(dual_carriage, ac_ev'.sent) ELSE dual_carriage
    /\ dc_before' = dual_carriage
    /\ UNCHANGED non_ac_vars

\* update_printer_positions: the XY query ends, asyncio.sleep(0.1) begins
AcPosXyDone(r) ==
    /\ pos_pc = "await_xy"
    /\ pos_pc' = "pause"
    /\ ac_ev' = AcEv("pos_xy_done", r.tag, << >>, "none")
    /\ UNCHANGED <<ac_running, ac_connected, jog_pc, jog_move, current_velocity, ac_positions, since_movement, since_update>>
    /\ UNCHANGED ws_vars
    /\ UNCHANGED dual_carriage
    /\ dc_before' = dual_carriage
    /\ UNCHANGED non_ac_vars

\* update_printer_positions: after the sleep the UV query is sent
AcPosUvSend ==
    /\ pos_pc = "pause"
    /\ pos_pc' = IF send_request_refused(ws_connected, websocket) THEN "sleep" ELSE "await_uv"
    /\ ac_ev' = AcEv("pos_query_uv", "none", <<AcCmd("M114", 2, 0)>>, "none")
    /\ UNCHANGED <<ac_running, ac_connected, jog_pc, jog_move, current_velocity, ac_positions, since_movement, since_update>>
    /\ UNCHANGED ws_vars
    /\ dual_carriage' = IF pos_pc' = "await_uv" THEN klipper_after(dual_carriage, ac_ev'.sent) ELSE dual_carriage
    /\ dc_before' = dual_carriage
    /\ UNCHANGED non_ac_vars

\* update_printer_positions: the UV query ends, the task sleeps 1 s
AcPosUvDone(r) ==
    /\ pos_pc = "await_uv"
    /\ pos_pc' = "sleep"
    /\ ac_ev' = AcEv("pos_uv_done", r.tag, << >>, "none")
    /\ UNCHANGED <<ac_running, ac_connected, jog_pc, jog_move, current_velocity, ac_positions, since_movement, since_update>>
    /\ UNCHANGED ws_vars
    /\ UNCHANGED dual_carriage
    /\ dc_before' = dual_carriage
    /\ UNCHANGED non_ac_vars

\* one second passes
AcElapse ==
    /\ ac_running
    /\ since_movement <= idle_seconds \/ since_update <= update_seconds
    /\ since_movement' = Min(since_movement + 1, idle_seconds + 1)
    /\ since_update' = Min(since_update + 1, update_seconds + 1)
    /\ ac_ev' = AcEv("elapse", "none", << >>, "none")
    /\ UNCHANGED <<ac_running, ac_connected, jog_pc, pos_pc, jog_move, current_velocity, ac_positions>>
    /\ UNCHANGED ws_vars
    /\ UNCHANGED dual_carriage
    /\ dc_before' = dual_carriage
    /\ UNCHANGED non_ac_vars

\* AsyncSmoothJoystickController.connect (the Connect button); ok: websockets.connect succeeds
AcConnect(ok) ==
    /\ ~ac_connected /\ ~ac_running /\ ~disconnecting
    /\ jog_pc \in {"off", "dead"} /\ pos_pc \in {"off", "dead"}
    /\ IF ok
       THEN /\ ws_connected' = TRUE /\ websocket' = "open"
            /\ ac_connected' = TRUE /\ ac_running' = TRUE
            /\ jog_pc' = "sleep" /\ pos_pc' = "sleep"
            /\ since_update' = 0
            /\ ev' = Ev("connect", "none", "none", 0, NoRet)
            /\ ac_ev' = AcEv("connect", "True", <<AcCmd("G91", 0, 0), AcCmd("M114", 1, 0), AcCmd("M114", 2, 0)>>, "none")
       ELSE /\ ws_connected' = FALSE
            /\ ev' = Ev("connect_failed", "none", "none", 0, NoRet)
            /\ ac_ev' = AcEv("connect", "False", << >>, "Connection Error")
            /\ UNCHANGED <<websocket, ac_connected, ac_running, jog_pc, pos_pc, since_update>>
    /\ UNCHANGED <<jog_move, current_velocity, ac_positions, since_movement>>
    /\ UNCHANGED <<disconnecting, message_id, pending_requests, call, issued>>
    /\ dual_carriage' = IF ok THEN klipper_after(dual_carriage, ac_ev'.sent) ELSE dual_carriage
    /\ dc_before' = dual_carriage
    /\ UNCHANGED non_ac_vars

\* AsyncSmoothJoystickController.disconnect (the Disconnect button); ac_ev.result
\* keeps the await of the jog loop that the disconnect cancelled
AcDisconnect ==
    /\ ac_connected /\ ~disconnecting
    /\ ac_running' = FALSE /\ ac_connected' = FALSE
    /\ current_velocity' = 0
    /\ ws_connected' = FALSE /\ websocket' = "none"
    /\ jog_pc' = after_stop(after_cancel(jog_pc))
    /\ pos_pc' = after_stop(after_cancel(pos_pc))
    /\ jog_move' = NoMove
    /\ ev' = Ev("disconnect_done", "none", "none", 0, NoRet)
    /\ ac_ev' = AcEv("disconnect", IF Awaiting(jog_pc) THEN jog_pc ELSE "none", << >>, "none")
    /\ UNCHANGED <<ac_positions, since_movement, since_update>>
    /\ UNCHANGED <<disconnecting, message_id, pending_requests, call, issued>>
    /\ UNCHANGED dual_carriage
    /\ dc_before' = dual_carriage
    /\ UNCHANGED non_ac_vars

\* AsyncSmoothJoystickController.manual_reconnect (the Reconnect button, enabled
\* by connect and disabled by disconnect); ok: websockets.connect succeeds
AcManualReconnect(ok) ==
    /\ ac_connected /\ ~disconnecting
    /\ jog_pc' = after_cancel(jog_pc)
    /\ pos_pc' = after_cancel(pos_pc)
    /\ jog_move' = IF Awaiting(jog_pc) THEN NoMove ELSE jog_move
    /\ ws_connected' = ok
    /\ websocket' = IF ok THEN "open" ELSE "none"
    /\ ev' = Ev(IF ok THEN "connect" ELSE "connect_failed", "none", "none", 0, NoRet)
    /\ ac_ev' = AcEv("manual_reconnect", IF ok THEN "True" ELSE "False",
                     IF ok THEN <<AcCmd("G91", 0, 0), AcCmd("M114", 1, 0), AcCmd("M114", 2, 0)>> ELSE << >>,
                     IF ok THEN "none" ELSE "Reconnection")
    /\ UNCHANGED <<ac_running, ac_connected, current_velocity, ac_positions, since_movement, since_update>>
    /\ UNCHANGED <<disconnecting, message_id, pending_requests, call, issued>>
    /\ dual_carriage' = IF ok THEN klipper_after(dual_carriage, ac_ev'.sent) ELSE dual_carriage
    /\ dc_before' = dual_carriage
    /\ UNCHANGED non_ac_vars

\* AsyncSmoothJoystickController.__init__
AcInit ==
    /\ ac_running = FALSE
    /\ ac_connected = FALSE
    /\ jog_pc = "off"
    /\ pos_pc = "off"
    /\ jog_move = NoMove
    /\ current_velocity = 0
    /\ ac_positions = [x |-> 0, u |-> 0]
    /\ since_movement = 0
    /\ since_update = 0
    /\ dual_carriage = [x |-> 1, y |-> 1]
    /\ dc_before = dual_carriage
    /\ ac_ev = AcEv("init", "none", << >>, "none")

(***************************************************************************)
(* Part VI  Pure functions of the controllers and their configuration      *)
(***************************************************************************)
\* smooth_velocity_transition is applied to velocities of at most MaxSmoothVel mm/min
MaxSmoothVel == 100

\* target velocities: stick released, a target below the stop threshold, a jog
SmoothTargets == {0, 3, 60}
\* time between two calls, ms: the same clock reading twice, one time constant
SmoothDts == {0, 100}

\* smooth_jog_loop: current_velocities[axis] = smooth_velocity_transition(current, target, dt)
SmoothTick ==
    /\ \E dt \in SmoothDts :
        /\ sm_vel' = smooth_velocity_transition(sm_vel, sm_target, dt)
        /\ sm_dt' = dt
    /\ UNCHANGED <<sm_target, iv_min, iv_v, iv_out, vc_in, vc_out>>
    /\ UNCHANGED non_fn_vars

\* smooth_jog_loop: the stick moves, get_velocity_curve gives another target
SmoothRetarget ==
    /\ \E t \in SmoothTargets \ {sm_target} : sm_target' = t
    /\ sm_dt' = -1
    /\ UNCHANGED <<sm_vel, iv_min, iv_v, iv_out, vc_in, vc_out>>
    /\ UNCHANGED non_fn_vars

SmInit ==
    /\ sm_vel = 0
    /\ sm_target = 0
    /\ sm_dt = -1

\* SmoothJoggingConfig: jog interval bounds, ns
min_jog_interval == 20000000
max_jog_interval == 200000000
\* get_dynamic_interval: abs(velocity) < 0.1, in hundredths of mm/min
interval_still_threshold == 10
\* SmoothJoggingConfig.max_speed, in hundredths of mm/min
interval_max_speed == 200000

\* velocities handed to get_dynamic_interval, hundredths of mm/min
IntervalVels == {-250000, -200000, -100000, -10, -9, 0, 9, 10, 100000, 200000, 250000}
\* mean latency measured by auto_calibrate_network, ns (each sample ends within the 2 s timeout)
Latencies == {5000000, 150000000}

\* SmoothJoggingConfig.get_dynamic_interval (JogConfig.get_dynamic_interval is the same
\* expression), with min_jog_interval as it stands; exact arithmetic, ns
get_dynamic_interval(velocity, min_interval) ==
    IF Abs(velocity) < interval_still_threshold
    THEN max_jog_interval
    ELSE max_jog_interval - ((max_jog_interval - min_interval) \div interval_max_speed) * Min(interval_max_speed, Abs(velocity))

\* SmoothJoggingConfig.auto_calibrate_network: min_jog_interval = max(0.02, network_latency * 2)
calibrated_min_interval(latency) == Max(min_jog_interval, latency * 2)

\* a call of get_dynamic_interval; the last two calls are kept
ApplyInterval ==
    /\ \E v \in IntervalVels :
        /\ iv_v' = <<iv_v[2], v>>
        /\ iv_out' = <<iv_out[2], get_dynamic_interval(v, iv_min)>>
    /\ UNCHANGED <<iv_min, sm_vel, sm_target, sm_dt, vc_in, vc_out>>
    /\ UNCHANGED non_fn_vars

\* the Auto-Calibrate button: auto_calibrate_network with latencies measured
AutoCalibrate ==
    /\ \E l \in Latencies : iv_min' = calibrated_min_interval(l)
    /\ iv_v' = <<0, 0>>
    /\ iv_out' = <<get_dynamic_interval(0, iv_min'), get_dynamic_interval(0, iv_min')>>
    /\ UNCHANGED <<sm_vel, sm_target, sm_dt, vc_in, vc_out>>
    /\ UNCHANGED non_fn_vars

\* SmoothJoggingConfig.__init__
IvInit ==
    /\ iv_min = min_jog_interval
    /\ iv_v = <<0, 0>>
    /\ iv_out = <<max_jog_interval, max_jog_interval>>

\* stick_input in percent of full deflection
StickInputs == -100..100

\* a call of get_velocity_curve
ApplyCurve ==
    /\ \E raw \in StickInputs, fine_mode \in BOOLEAN, cfg \in ConfigClasses :
        /\ vc_in' = [raw |-> raw, fine_mode |-> fine_mode, cfg |-> cfg]
        /\ vc_out' = get_velocity_curve(raw, fine_mode, cfg)
    /\ UNCHANGED <<sm_vel, sm_target, sm_dt, iv_min, iv_v, iv_out>>
    /\ UNCHANGED non_fn_vars

VcInit ==
    /\ vc_in = [raw |-> 0, fine_mode |-> FALSE, cfg |-> "JogConfig"]
    /\ vc_out = 0

(***************************************************************************)
(* Part VII   FlexCableAlignerPlugin._loop                                 *)
(*            (octoprint_flex_cable_aligner/__init__.py): the OctoPrint    *)
(*            plugin's jog loop after the joystick has been initialised.   *)
(*            One action is one pass of the while loop, from the read of   *)
(*            the joystick to the end of its sleep.  The passes without a  *)
(*            joystick send nothing and are not modelled; neither are the  *)
(*            integrated positions and the save/goto buttons, which write  *)
(*            no M410.  Time in ms, feed in mm/min.                        *)
(***************************************************************************)
\* the loop stops being stepped once pl_now has advanced MaxElapsed ms
MaxElapsed == 400
\* time.time() at the first modelled pass
StartTime == 1000
\* (dx, dy, dz) computed by _dir_and_feed_from_joystick
zero_dir == <<0, 0, 0>>
PluginDirs == {zero_dir, <<1, 0, 0>>}
\* feed = max_speed from axis 3 and the base_speed setting
PluginFeeds == {0, 20000}
\* buttons held during a pass
PluginButtonSets == {{}, {"home"}, {"toggle_car"}}

\* _send_commands: the lines reach printer.commands only if the printer is operational
\* at the time of the call
send_commands(oper_s, lines, by) ==
    IF oper_s THEN [i \in 1..Len(lines) |-> [line |-> lines[i], by |-> by]] ELSE <<>>

\* _stop_jog
plugin_stop_jog(oper_s, by) == send_commands(oper_s, <<"M410">>, by)

\* _jog for a nonzero direction and a positive feed: M410, then a long relative move
plugin_jog(oper_s, dir, feed) ==
    IF dir = zero_dir \/ feed <= 0
    THEN plugin_stop_jog(oper_s, "jog")
    ELSE send_commands(oper_s, <<"M410">>, "jog") \o send_commands(oper_s, <<"G91", "G1">>, "jog")

\* debounce(key, interval) inside _handle_buttons
debounce(times, key, t, interval) == t - times[key] > interval

\* _handle_buttons, buttons 0 (home) and 1 (toggle carriage)
handle_buttons(times, car, btns, t, oper_s) ==
    LET home == "home" \in btns /\ debounce(times, "home", t, 300)
        t1 == IF home THEN [times EXCEPT !["home"] = t] ELSE times
        s1 == IF home
              THEN plugin_stop_jog(oper_s, "home") \o send_commands(oper_s, <<"G28">>, "home")
              ELSE <<>>
        toggle == "toggle_car" \in btns /\ debounce(t1, "toggle_car", t, 200)
        t2 == IF toggle THEN [t1 EXCEPT !["toggle_car"] = t] ELSE t1
    IN  [ times |-> t2,
          car |-> IF toggle THEN (IF car = 1 THEN 2 ELSE 1) ELSE car,
          sent |-> s1 \o (IF toggle THEN plugin_stop_jog(oper_s, "toggle_car") ELSE <<>>) ]

\* the input is in the deadzone for the loop
in_deadzone(dir, feed) == dir = zero_dir \/ feed < 5

\* the deadzone branch of _loop sends a stop
deadzone_stop_due(ld, lss, now_t) == ld # zero_dir \/ lss = 0 \/ now_t - lss > 250

\* the dynamic sleep at the end of a pass
plugin_sleep(feed) ==
    IF Abs(feed) * 10 < 1
    THEN 100
    ELSE Max(10, 100 - (50 * Min(20000, Abs(feed))) \div 20000)

\* the M410 lines among the lines that reached the printer
RECURSIVE stops_in(_)
stops_in(sent) ==
    IF sent = <<>> THEN <<>>
    ELSE (IF Head(sent).line = "M410" THEN <<Head(sent)>> ELSE <<>>) \o stops_in(Tail(sent))

\* one pass of the while loop of _loop
PluginTick ==
    /\ pl_running
    /\ \E dir \in PluginDirs, feed \in PluginFeeds, btns \in PluginButtonSets,
          oper \in BOOLEAN :
        LET oper_s == oper   \* _is_operational answers the same throughout one pass
            hb == handle_buttons(last_button_times, pl_selected_carriage, btns, pl_now, oper_s)
            dz == in_deadzone(dir, feed)
            stop == oper /\ dz /\ deadzone_stop_due(pl_last_dir, last_stop_sent, pl_now)
            move == oper /\ ~dz /\ (dir # pl_last_dir \/ Abs(feed - pl_last_feed) > 50)
            sent == hb.sent
                    \o (IF stop THEN plugin_stop_jog(oper_s, "deadzone") ELSE <<>>)
                    \o (IF move THEN plugin_jog(oper_s, dir, feed) ELSE <<>>)
        IN  /\ pl_now + plugin_sleep(feed) <= StartTime + MaxElapsed
            /\ last_button_times' = hb.times
            /\ pl_selected_carriage' = hb.car
            /\ last_stop_sent' = IF stop THEN pl_now ELSE last_stop_sent
            /\ pl_last_dir' = IF oper /\ dz THEN zero_dir ELSE IF move THEN dir ELSE pl_last_dir
            /\ pl_last_feed' = IF oper /\ dz THEN 0 ELSE IF move THEN feed ELSE pl_last_feed
            /\ stay_stop_at' = IF ~dz THEN 0
                               ELSE IF stops_in(sent) # <<>> THEN pl_now ELSE stay_stop_at
            /\ pl_ev' = [ op |-> "tick", at |-> pl_now,
                          oper |-> oper, dz |-> dz, sent |-> sent,
                          prev_dz |-> pl_ev.dz, prev_oper |-> pl_ev.oper,
                          stay_last |-> IF pl_ev.dz THEN stay_stop_at ELSE 0,
                          branch_last |-> IF pl_ev.dz THEN pl_ev.branch_now ELSE 0,
                          branch_now |-> IF ~dz THEN 0
                                         ELSE IF stop /\ oper_s THEN pl_now
                                         ELSE IF pl_ev.dz THEN pl_ev.branch_now ELSE 0 ]
            /\ pl_now' = pl_now + plugin_sleep(feed)
    /\ UNCHANGED pl_running
    /\ UNCHANGED non_pl_vars

\* a pass in which pygame.event.pump raises: sleep 0.2 s and continue
PluginPumpFail ==
    /\ pl_running
    /\ pl_now + 200 <= StartTime + MaxElapsed
    /\ pl_now' = pl_now + 200
    /\ pl_ev' = [pl_ev EXCEPT !.op = "pump_fail", !.at = pl_now, !.sent = <<>>]
    /\ UNCHANGED <<pl_running, last_stop_sent, pl_last_dir, pl_last_feed, last_button_times,
                   pl_selected_carriage, stay_stop_at>>
    /\ UNCHANGED non_pl_vars

\* _running is cleared: the loop ends and sends its final stop
PluginShutdown ==
    /\ pl_running
    /\ pl_running' = FALSE
    /\ \E oper_s \in BOOLEAN :
        pl_ev' = [pl_ev EXCEPT !.op = "shutdown", !.at = pl_now,
                               !.sent = plugin_stop_jog(oper_s, "shutdown")]
    /\ UNCHANGED <<pl_now, last_stop_sent, pl_last_dir, pl_last_feed, last_button_times,
                   pl_selected_carriage, stay_stop_at>>
    /\ UNCHANGED non_pl_vars

PlInit ==
    /\ pl_running = TRUE
    /\ pl_now = StartTime
    /\ last_stop_sent = 0
    /\ pl_last_dir = zero_dir
    /\ pl_last_feed = 0
    /\ last_button_times = [k \in {"home", "toggle_car"} |-> 0]
    /\ pl_selected_carriage = 1
    /\ stay_stop_at = 0
    /\ pl_ev = [ op |-> "init", at |-> StartTime,
                 oper |-> FALSE, dz |-> FALSE, sent |-> <<>>,
                 prev_dz |-> FALSE, prev_oper |-> FALSE, stay_last |-> 0,
                 branch_last |-> 0, branch_now |-> 0 ]

(***************************************************************************)
(* Part VIII  Printer.get_position (include/printer.py): the reply to M114 *)
(*            and its parsing.  A line is the sequence of its blank-       *)
(*            separated tokens; a token is KEY:value or a bare word.       *)
(*            Values in tenths of a mm (the report) and steps (the count). *)
(***************************************************************************)
Tok(k, v) == [colon |-> TRUE, k |-> k, v |-> v]
Word(w) == [colon |-> FALSE, k |-> w, v |-> 0]
\* the coordinates Marlin reports and the step counts after 'Count'
ReportVals == {0, 15, -25}
CountVals == {0, 120}
\* "X:x Y:y Z:z E:0.00 Count X:cx Y:cy Z:cz"
report_line(x, y, z, cx, cy, cz) ==
    <<Tok("X", x), Tok("Y", y), Tok("Z", z), Tok("E", 0), Word("Count"),
      Tok("X", cx), Tok("Y", cy), Tok("Z", cz)>>
ok_line == <<Word("ok")>>
ReportLines ==
    { report_line(x, y, z, cx, cy, cz) : x \in ReportVals, y \in ReportVals, z \in ReportVals,
                                         cx \in CountVals, cy \in CountVals, cz \in {0} }
\* what the readline calls return before the 0.2 s deadline: nothing, the report alone,
\* the report and its ok, or the ok alone
Replies == {<<>>, <<ok_line>>} \cup { <<r>> : r \in ReportLines } \cup { <<r, ok_line>> : r \in ReportLines }

\* str.lower on the keys and words that occur
lower(k) ==
    CASE k = "X" -> "x" [] k = "Y" -> "y" [] k = "Z" -> "z" [] k = "E" -> "e"
      [] k = "Count" -> "count" [] OTHER -> k

\* 'ok' in s.lower()
contains_ok(line) == \E i \in 1..Len(line) : ~line[i].colon /\ lower(line[i].k) = "ok"

\* the read loop of get_position: line is the last non-empty line read, the loop
\* ends with the first line that contains ok or at the deadline
RECURSIVE read_reply(_, _)
read_reply(lines, line) ==
    IF lines = <<>> THEN line
    ELSE IF Head(lines) = <<>> THEN read_reply(Tail(lines), line)
    ELSE IF contains_ok(Head(lines)) THEN Head(lines)
    ELSE read_reply(Tail(lines), Head(lines))

\* vals[k.lower()] = float(v) for every token with a colon, in order
RECURSIVE parse_tokens(_, _)
parse_tokens(line, vals) ==
    IF line = <<>> THEN vals
    ELSE parse_tokens(Tail(line),
                      IF Head(line).colon
                      THEN [k \in DOMAIN vals \cup {lower(Head(line).k)} |->
                               IF k = lower(Head(line).k) THEN Head(line).v ELSE vals[k]]
                      ELSE vals)

\* vals.get(k, 0.0)
vals_get(vals, k) == IF k \in DOMAIN vals THEN vals[k] ELSE 0

\* the dict a parse returns, and Python's None
position_dict(vals) ==
    [none |-> FALSE, x |-> vals_get(vals, "x"), y |-> vals_get(vals, "y"), z |-> vals_get(vals, "z")]
NoPosition == [none |-> TRUE, x |-> 0, y |-> 0, z |-> 0]

\* pos_line.split('Count')[0] of include/test.py
RECURSIVE before_count(_)
before_count(line) ==
    IF line = <<>> THEN <<>>
    ELSE IF ~Head(line).colon /\ Head(line).k = "Count" THEN <<>>
    ELSE <<Head(line)>> \o before_count(Tail(line))

\* the parsing script include/test.py applied to one line
test_parse(line) ==
    position_dict(parse_tokens(before_count(line), [k \in {} |-> 0]))

\* Printer.get_position; None when not connected or when the lock is taken
get_position(conn, acquired, lines) ==
    IF ~conn \/ ~acquired THEN NoPosition
    ELSE position_dict(parse_tokens(read_reply(lines, <<>>), [k \in {} |-> 0]))

\* one call of get_position against a controller that answers M114 with reply
QueryPosition ==
    /\ \E reply \in Replies, conn \in BOOLEAN :
        /\ gp_reply' = reply
        /\ gp_ret' = get_position(conn, TRUE, reply)
    /\ UNCHANGED non_gp_vars

GpInit ==
    /\ gp_reply = <<>>
    /\ gp_ret = NoPosition

(***************************************************************************)
(* Part IX   Printer on the serial port, called from several threads       *)
(*           (include/printer.py): _io_lock, _write_line, _read_until_ok,  *)
(*           send_gcode, get_position.  The printer is connected and the   *)
(*           port is open.  Every line written gets a number; the          *)
(*           controller answers the lines in order, each with one 'ok'     *)
(*           (M114 with a report line and an 'ok').                        *)
(***************************************************************************)
\* at most MaxLines lines are written to the port
MaxLines == 4
Threads == {1, 2}
\* the calls of send_gcode made by Printer: jog's M410 (wait_ok=False), stop_jog's
\* M410, jog's G1, move_relative's two-line script
Scripts ==
    { [lines |-> <<"M410">>, wait_ok |-> FALSE],
      [lines |-> <<"M410">>, wait_ok |-> TRUE],
      [lines |-> <<"G1">>, wait_ok |-> TRUE],
      [lines |-> <<"G91", "G1">>, wait_ok |-> TRUE] }

FreeLock == [owner |-> 0, depth |-> 0]
\* RLock.acquire(blocking=False) / the condition under which a blocking acquire returns
rlock_can_acquire_mut(lock, t) == TRUE
rlock_can_acquire(lock, t) == lock.owner \in {0, t}
rlock_acquire(lock, t) == [owner |-> t, depth |-> lock.depth + 1]
rlock_release(lock) ==
    IF lock.depth <= 1 THEN FreeLock ELSE [lock EXCEPT !.depth = lock.depth - 1]

IdleSerialCall ==
    [kind |-> "none", lines |-> <<>>, wait_ok |-> FALSE, last_id |-> 0, consumed |-> 0, ret |-> "none"]
NoSerialEv == [op |-> "init", by |-> 0, port |-> "none", held_by |-> 0]

\* the step of thread t recorded: what it did to the port, and who owned the lock before it
serial_ev(name, t, port) == [op |-> name, by |-> t, port |-> port, held_by |-> io_lock.owner]

\* send_gcode enters `with self._io_lock`
SgBegin(t) ==
    /\ sl_pc[t] = "idle"
    /\ rlock_can_acquire(io_lock, t)
    /\ \E s \in Scripts :
        sl_call' = [sl_call EXCEPT ![t] = [IdleSerialCall EXCEPT !.kind = "send", !.lines = s.lines,
                                                               !.wait_ok = s.wait_ok]]
    /\ io_lock' = rlock_acquire(io_lock, t)
    /\ sl_pc' = [sl_pc EXCEPT ![t] = "write"]
    /\ sl_ev' = serial_ev("send_gcode", t, "none")
    /\ UNCHANGED <<sl_wire, sl_rx, sl_next_id>>
    /\ UNCHANGED non_sl_vars

\* _write_line for the next line of the script (the lock is re-entered and left again)
SgWrite(t) ==
    /\ sl_pc[t] = "write"
    /\ sl_call[t].lines # <<>>
    /\ sl_next_id <= MaxLines
    /\ rlock_can_acquire(io_lock, t)
    /\ sl_wire' = Append(sl_wire, [id |-> sl_next_id, line |-> Head(sl_call[t].lines)])
    /\ sl_next_id' = sl_next_id + 1
    /\ sl_call' = [sl_call EXCEPT ![t].lines = Tail(@), ![t].last_id = sl_next_id]
    /\ sl_ev' = serial_ev("write_line", t, "write")
    /\ UNCHANGED <<io_lock, sl_pc, sl_rx>>
    /\ UNCHANGED non_sl_vars

\* all lines written: return True when wait_ok is False, else enter _read_until_ok
SgWritten(t) ==
    /\ sl_pc[t] = "write"
    /\ sl_call[t].lines = <<>>
    /\ IF sl_call[t].wait_ok
       THEN /\ sl_pc' = [sl_pc EXCEPT ![t] = "read"]
            /\ UNCHANGED <<io_lock, sl_call>>
       ELSE /\ sl_pc' = [sl_pc EXCEPT ![t] = "idle"]
            /\ sl_call' = [sl_call EXCEPT ![t].ret = "True"]
            /\ io_lock' = rlock_release(io_lock)
    /\ sl_ev' = serial_ev("written", t, "none")
    /\ UNCHANGED <<sl_wire, sl_rx, sl_next_id>>
    /\ UNCHANGED non_sl_vars

\* _read_until_ok: readline returns a line; an 'ok' ends the call with True
SgReadLine(t) ==
    /\ sl_pc[t] = "read"
    /\ sl_rx # <<>>
    /\ sl_rx' = Tail(sl_rx)
    /\ IF Head(sl_rx).kind = "ok"
       THEN /\ sl_call' = [sl_call EXCEPT ![t].ret = "True", ![t].consumed = Head(sl_rx).id]
            /\ sl_pc' = [sl_pc EXCEPT ![t] = "idle"]
            /\ io_lock' = rlock_release(io_lock)
       ELSE UNCHANGED <<sl_call, sl_pc, io_lock>>
    /\ sl_ev' = serial_ev("readline", t, "read")
    /\ UNCHANGED <<sl_wire, sl_next_id>>
    /\ UNCHANGED non_sl_vars

\* _read_until_ok: nothing arrives until the deadline; the call returns False
SgTimeout(t) ==
    /\ sl_pc[t] = "read"
    /\ sl_rx = <<>>
    /\ sl_call' = [sl_call EXCEPT ![t].ret = "False"]
    /\ sl_pc' = [sl_pc EXCEPT ![t] = "idle"]
    /\ io_lock' = rlock_release(io_lock)
    /\ sl_ev' = serial_ev("readline", t, "read")
    /\ UNCHANGED <<sl_wire, sl_rx, sl_next_id>>
    /\ UNCHANGED non_sl_vars

\* get_position: the non-blocking acquire; None when the lock is taken, else M114 is written
GpBegin(t) ==
    /\ sl_pc[t] = "idle"
    /\ IF rlock_can_acquire(io_lock, t)
       THEN /\ sl_next_id <= MaxLines
            /\ io_lock' = rlock_acquire(io_lock, t)
            /\ sl_wire' = Append(sl_wire, [id |-> sl_next_id, line |-> "M114"])
            /\ sl_next_id' = sl_next_id + 1
            /\ sl_call' = [sl_call EXCEPT ![t] = [IdleSerialCall EXCEPT !.kind = "get", !.last_id = sl_next_id]]
            /\ sl_pc' = [sl_pc EXCEPT ![t] = "gp_read"]
            /\ sl_ev' = serial_ev("get_position", t, "write")
       ELSE /\ sl_call' = [sl_call EXCEPT ![t] = [IdleSerialCall EXCEPT !.kind = "get", !.ret = "None"]]
            /\ sl_ev' = serial_ev("get_position", t, "none")
            /\ UNCHANGED <<io_lock, sl_wire, sl_next_id, sl_pc>>
    /\ UNCHANGED sl_rx
    /\ UNCHANGED non_sl_vars

\* get_position's read loop: a line read; one that contains ok ends the loop
GpReadLine(t) ==
    /\ sl_pc[t] = "gp_read"
    /\ sl_rx # <<>>
    /\ sl_rx' = Tail(sl_rx)
    /\ IF Head(sl_rx).kind = "ok"
       THEN /\ sl_call' = [sl_call EXCEPT ![t].ret = "dict", ![t].consumed = Head(sl_rx).id]
            /\ sl_pc' = [sl_pc EXCEPT ![t] = "idle"]
            /\ io_lock' = rlock_release(io_lock)
       ELSE UNCHANGED <<sl_call, sl_pc, io_lock>>
    /\ sl_ev' = serial_ev("readline", t, "read")
    /\ UNCHANGED <<sl_wire, sl_next_id>>
    /\ UNCHANGED non_sl_vars

\* get_position's read loop: the 0.2 s deadline passes with nothing more to read
GpTimeout(t) ==
    /\ sl_pc[t] = "gp_read"
    /\ sl_rx = <<>>
    /\ sl_call' = [sl_call EXCEPT ![t].ret = "dict"]
    /\ sl_pc' = [sl_pc EXCEPT ![t] = "idle"]
    /\ io_lock' = rlock_release(io_lock)
    /\ sl_ev' = serial_ev("readline", t, "read")
    /\ UNCHANGED <<sl_wire, sl_rx, sl_next_id>>
    /\ UNCHANGED non_sl_vars

\* the controller answers the oldest unanswered line
ControllerAnswers ==
    /\ sl_wire # <<>>
    /\ sl_wire' = Tail(sl_wire)
    /\ sl_rx' = sl_rx \o (IF Head(sl_wire).line = "M114"
                          THEN <<[kind |-> "report", id |-> Head(sl_wire).id]>>
                          ELSE <<>>)
                      \o <<[kind |-> "ok", id |-> Head(sl_wire).id]>>
    /\ sl_ev' = [op |-> "answer", by |-> 0, port |-> "none", held_by |-> io_lock.owner]
    /\ UNCHANGED <<io_lock, sl_pc, sl_call, sl_next_id>>
    /\ UNCHANGED non_sl_vars

SlInit ==
    /\ io_lock = FreeLock
    /\ sl_pc = [t \in Threads |-> "idle"]
    /\ sl_call = [t \in Threads |-> IdleSerialCall]
    /\ sl_wire = <<>>
    /\ sl_rx = <<>>
    /\ sl_next_id = 1
    /\ sl_ev = NoSerialEv

(***************************************************************************)
(* Part X  The tasks and threads the joystick controllers start            *)
(*                                                                         *)
(* AsyncSmoothJoystickController runs smooth_jog_loop and                  *)
(* periodic_position_update as asyncio tasks; SmoothJoystickController     *)
(* runs smooth_jog_loop as a thread.  jog_tasks, pos_tasks and jog_threads *)
(* count the ones that were started and have not returned.                 *)
(***************************************************************************)

\* coroutines, tasks or threads of one kind alive at once in the model
MaxTasks == 3

\* AsyncSmoothJoystickController.connect (the Connect button): _connect is handed
\* to the event loop; the button stays enabled until the connection succeeds
TkConnectClick ==
    /\ connect_btn
    /\ connect_calls < MaxTasks
    /\ connect_calls' = connect_calls + 1
    /\ tk_op' = "connect"
    /\ UNCHANGED <<tk_running, tk_connected, jog_tasks, pos_tasks, reconnect_calls, connect_btn, disconnect_btn, reconnect_btn>>
    /\ UNCHANGED <<th_running, jog_threads, jog_thread_alive, th_connect_btn, th_reconnect_btn>>
    /\ UNCHANGED non_tk_vars

\* _connect of connect after websocket_client.connect() returned success
TkConnectDone(success) ==
    /\ connect_calls > 0
    /\ connect_calls' = connect_calls - 1
    /\ IF success
       THEN /\ jog_tasks < MaxTasks /\ pos_tasks < MaxTasks
            /\ tk_connected' = TRUE
            /\ connect_btn' = FALSE /\ disconnect_btn' = TRUE /\ reconnect_btn' = TRUE
            /\ tk_running' = TRUE
            /\ jog_tasks' = jog_tasks + 1
            /\ pos_tasks' = pos_tasks + 1
            /\ tk_op' = "connected"
       ELSE /\ tk_op' = "connect_failed"
            /\ UNCHANGED <<tk_running, tk_connected, jog_tasks, pos_tasks, connect_btn, disconnect_btn, reconnect_btn>>
    /\ UNCHANGED reconnect_calls
    /\ UNCHANGED <<th_running, jog_threads, jog_thread_alive, th_connect_btn, th_reconnect_btn>>
    /\ UNCHANGED non_tk_vars

\* AsyncSmoothJoystickController.disconnect (the Disconnect button)
TkDisconnect ==
    /\ disconnect_btn
    /\ tk_running' = FALSE /\ tk_connected' = FALSE
    /\ connect_btn' = TRUE /\ disconnect_btn' = FALSE /\ reconnect_btn' = FALSE
    /\ tk_op' = "disconnect"
    /\ UNCHANGED <<jog_tasks, pos_tasks, connect_calls, reconnect_calls>>
    /\ UNCHANGED <<th_running, jog_threads, jog_thread_alive, th_connect_btn, th_reconnect_btn>>
    /\ UNCHANGED non_tk_vars

\* AsyncSmoothJoystickController.manual_reconnect (the Reconnect button)
TkReconnectClick ==
    /\ reconnect_btn
    /\ reconnect_calls < MaxTasks
    /\ reconnect_calls' = reconnect_calls + 1
    /\ tk_op' = "manual_reconnect"
    /\ UNCHANGED <<tk_running, tk_connected, jog_tasks, pos_tasks, connect_calls, connect_btn, disconnect_btn, reconnect_btn>>
    /\ UNCHANGED <<th_running, jog_threads, jog_thread_alive, th_connect_btn, th_reconnect_btn>>
    /\ UNCHANGED non_tk_vars

\* _reconnect of manual_reconnect after websocket_client.connect() returned success
TkReconnectDone(success) ==
    /\ reconnect_calls > 0
    /\ reconnect_calls' = reconnect_calls - 1
    /\ IF success
       THEN /\ tk_connected' = TRUE
            /\ IF ~tk_running
               THEN /\ jog_tasks < MaxTasks
                    /\ tk_running' = TRUE
                    /\ jog_tasks' = jog_tasks + 1
               ELSE UNCHANGED <<tk_running, jog_tasks>>
            /\ tk_op' = "reconnected"
       ELSE /\ tk_op' = "reconnect_failed"
            /\ UNCHANGED <<tk_running, tk_connected, jog_tasks>>
    /\ UNCHANGED <<pos_tasks, connect_calls, connect_btn, disconnect_btn, reconnect_btn>>
    /\ UNCHANGED <<th_running, jog_threads, jog_thread_alive, th_connect_btn, th_reconnect_btn>>
    /\ UNCHANGED non_tk_vars

\* the "while self.running" test of one smooth_jog_loop task after its sleep
TkJogTurn ==
    /\ jog_tasks > 0
    /\ jog_tasks' = IF tk_running THEN jog_tasks ELSE jog_tasks - 1
    /\ tk_op' = IF tk_running THEN "jog_turn" ELSE "jog_stopped"
    /\ UNCHANGED <<tk_running, tk_connected, pos_tasks, connect_calls, reconnect_calls, connect_btn, disconnect_btn, reconnect_btn>>
    /\ UNCHANGED <<th_running, jog_threads, jog_thread_alive, th_connect_btn, th_reconnect_btn>>
    /\ UNCHANGED non_tk_vars

\* the "while self.running and self.connected" test of one periodic_position_update task
TkPosTurn ==
    /\ pos_tasks > 0
    /\ pos_tasks' = IF tk_running /\ tk_connected THEN pos_tasks ELSE pos_tasks - 1
    /\ tk_op' = IF tk_running /\ tk_connected THEN "pos_turn" ELSE "pos_stopped"
    /\ UNCHANGED <<tk_running, tk_connected, jog_tasks, connect_calls, reconnect_calls, connect_btn, disconnect_btn, reconnect_btn>>
    /\ UNCHANGED <<th_running, jog_threads, jog_thread_alive, th_connect_btn, th_reconnect_btn>>
    /\ UNCHANGED non_tk_vars

\* SmoothJoystickController.connect (the Connect button): a new jog thread, always
ThConnect ==
    /\ th_connect_btn
    /\ jog_threads < MaxTasks
    /\ th_connect_btn' = FALSE /\ th_reconnect_btn' = TRUE
    /\ th_running' = TRUE
    /\ jog_threads' = jog_threads + 1
    /\ jog_thread_alive' = TRUE
    /\ tk_op' = "th_connect"
    /\ UNCHANGED <<tk_running, tk_connected, jog_tasks, pos_tasks, connect_calls, reconnect_calls, connect_btn, disconnect_btn, reconnect_btn>>
    /\ UNCHANGED non_tk_vars

\* SmoothJoystickController.disconnect (the Disconnect button)
ThDisconnect ==
    /\ ~th_connect_btn
    /\ th_running' = FALSE
    /\ th_connect_btn' = TRUE /\ th_reconnect_btn' = FALSE
    /\ tk_op' = "th_disconnect"
    /\ UNCHANGED <<jog_threads, jog_thread_alive>>
    /\ UNCHANGED <<tk_running, tk_connected, jog_tasks, pos_tasks, connect_calls, reconnect_calls, connect_btn, disconnect_btn, reconnect_btn>>
    /\ UNCHANGED non_tk_vars

\* SmoothJoystickController.manual_reconnect (the Reconnect button): a new jog
\* thread unless self.jog_thread.is_alive()
ThManualReconnect ==
    /\ th_reconnect_btn
    /\ IF ~jog_thread_alive
       THEN /\ jog_threads < MaxTasks
            /\ th_running' = TRUE
            /\ jog_threads' = jog_threads + 1
            /\ jog_thread_alive' = TRUE
       ELSE UNCHANGED <<th_running, jog_threads, jog_thread_alive>>
    /\ tk_op' = "th_manual_reconnect"
    /\ UNCHANGED <<th_connect_btn, th_reconnect_btn>>
    /\ UNCHANGED <<tk_running, tk_connected, jog_tasks, pos_tasks, connect_calls, reconnect_calls, connect_btn, disconnect_btn, reconnect_btn>>
    /\ UNCHANGED non_tk_vars

\* the "while self.running" test of one jog thread after its sleep;
\*   newest: the thread is the one self.jog_thread refers to
ThJogTurn(newest) ==
    /\ IF newest THEN jog_thread_alive ELSE jog_threads > (IF jog_thread_alive THEN 1 ELSE 0)
    /\ jog_threads' = IF th_running THEN jog_threads ELSE jog_threads - 1
    /\ jog_thread_alive' = IF newest /\ ~th_running THEN FALSE ELSE jog_thread_alive
    /\ tk_op' = IF th_running THEN "th_jog_turn" ELSE "th_jog_stopped"
    /\ UNCHANGED <<th_running, th_connect_btn, th_reconnect_btn>>
    /\ UNCHANGED <<tk_running, tk_connected, jog_tasks, pos_tasks, connect_calls, reconnect_calls, connect_btn, disconnect_btn, reconnect_btn>>
    /\ UNCHANGED non_tk_vars

\* both controllers after __init__ and setup_gui
TkInit ==
    /\ tk_running = FALSE
    /\ tk_connected = FALSE
    /\ jog_tasks = 0
    /\ pos_tasks = 0
    /\ connect_calls = 0
    /\ reconnect_calls = 0
    /\ connect_btn = TRUE
    /\ disconnect_btn = FALSE
    /\ reconnect_btn = FALSE
    /\ th_running = FALSE
    /\ jog_threads = 0
    /\ jog_thread_alive = FALSE
    /\ th_connect_btn = TRUE
    /\ th_reconnect_btn = FALSE
    /\ tk_op = "init"

(***************************************************************************)
(* Part XI  Position queries of AsyncSmoothJoystickController              *)
(*                                                                         *)
(* update_printer_positions selects a carriage and sends M114 twice; the   *)
(* printer answers each script with a notify_gcode_response carrying the   *)
(* position of the carriage the script selected, then with the result of   *)
(* the request.  stored_from remembers, for x/y and for u/v, the carriage  *)
(* whose report was last stored there.                                     *)
(***************************************************************************)

\* runs of update_printer_positions in one behaviour
MaxQueries == 2

\* "SET_DUAL_CARRIAGE CARRIAGE=x\nSET_DUAL_CARRIAGE CARRIAGE=y\nM114" and its x2/y2 twin
position_script(carriage, id) == [carriage |-> carriage, id |-> id]

\* parse_position_response for a report with X: and Y:, produced for carriage made_for
parse_position_response(pending, from, made_for) ==
    [pending |-> "None",
     from |-> IF pending = "xy" THEN [from EXCEPT !.xy = made_for]
              ELSE IF pending = "uv" THEN [from EXCEPT !.uv = made_for]
              ELSE from]

\* update_printer_positions up to its first await: the XY query is sent
UpdateStart ==
    /\ up_pc = "idle"
    /\ pq_started < MaxQueries
    /\ pq_started' = pq_started + 1
    /\ pending_position_request' = "xy"
    /\ up_id' = up_id + 1
    /\ printer_queue' = Append(printer_queue, position_script("xy", up_id + 1))
    /\ up_pc' = "await_xy"
    /\ pq_ev' = [op |-> "query", carriage |-> "xy", pending |-> pending_position_request]
    /\ UNCHANGED <<inbox, stored_from>>
    /\ UNCHANGED non_pq_vars

\* update_printer_positions after asyncio.sleep(0.1): the UV query is sent
UpdateSendUv ==
    /\ up_pc = "pause"
    /\ pending_position_request' = "uv"
    /\ up_id' = up_id + 1
    /\ printer_queue' = Append(printer_queue, position_script("uv", up_id + 1))
    /\ up_pc' = "await_uv"
    /\ pq_ev' = [op |-> "query", carriage |-> "uv", pending |-> pending_position_request]
    /\ UNCHANGED <<inbox, stored_from, pq_started>>
    /\ UNCHANGED non_pq_vars

\* send_gcode_and_wait(..., timeout=3.0) gives up: send_request raises,
\* send_gcode_and_wait returns None and update_printer_positions goes on
UpdateTimeout ==
    /\ up_pc \in {"await_xy", "await_uv"}
    /\ up_pc' = IF up_pc = "await_xy" THEN "pause" ELSE "idle"
    /\ pq_ev' = [op |-> "timeout", carriage |-> IF up_pc = "await_xy" THEN "xy" ELSE "uv", pending |-> pending_position_request]
    /\ UNCHANGED <<pending_position_request, up_id, printer_queue, inbox, stored_from, pq_started>>
    /\ UNCHANGED non_pq_vars

\* the printer runs the oldest script: the report of the selected carriage, then the result
PrinterRuns ==
    /\ printer_queue # << >>
    /\ printer_queue' = Tail(printer_queue)
    /\ inbox' = inbox \o << [kind |-> "notify_gcode_response", carriage |-> Head(printer_queue).carriage, id |-> Head(printer_queue).id],
                            [kind |-> "result", carriage |-> Head(printer_queue).carriage, id |-> Head(printer_queue).id] >>
    /\ pq_ev' = [op |-> "printer", carriage |-> Head(printer_queue).carriage, pending |-> pending_position_request]
    /\ UNCHANGED <<pending_position_request, up_pc, up_id, stored_from, pq_started>>
    /\ UNCHANGED non_pq_vars

\* message_listener takes the oldest message: a notification goes to
\* handle_printer_message, a result resolves the request that still waits for it
ReceiveMessage ==
    /\ inbox # << >>
    /\ inbox' = Tail(inbox)
    /\ IF Head(inbox).kind = "notify_gcode_response"
       THEN \E p \in {parse_position_response(pending_position_request, stored_from, Head(inbox).carriage)} :
                /\ pending_position_request' = p.pending
                /\ stored_from' = p.from
                /\ pq_ev' = [op |-> "report", carriage |-> Head(inbox).carriage, pending |-> pending_position_request]
                /\ UNCHANGED up_pc
       ELSE /\ up_pc' = IF Head(inbox).id = up_id /\ up_pc = "await_xy" THEN "pause"
                        ELSE IF Head(inbox).id = up_id /\ up_pc = "await_uv" THEN "idle"
                        ELSE up_pc
            /\ pq_ev' = [op |-> "result", carriage |-> Head(inbox).carriage, pending |-> pending_position_request]
            /\ UNCHANGED <<pending_position_request, stored_from>>
    /\ UNCHANGED <<up_id, printer_queue, pq_started>>
    /\ UNCHANGED non_pq_vars

\* AsyncSmoothJoystickController.__init__
PqInit ==
    /\ pending_position_request = "None"
    /\ up_pc = "idle"
    /\ up_id = 0
    /\ printer_queue = << >>
    /\ inbox = << >>
    /\ stored_from = [xy |-> "none", uv |-> "none"]
    /\ pq_started = 0
    /\ pq_ev = [op |-> "init", carriage |-> "none", pending |-> "None"]

(***************************************************************************)
(* Part XII  The integration step of smooth_jog_loop                       *)
(*                                                                         *)
(* Time is in ms and passes while the loop sleeps.  prev_turn is the time  *)
(* at which the loop began its previous turn, whatever that turn did.      *)
(***************************************************************************)

\* the clock stops here, ms
MaxClock == 1000
\* time.sleep(0.1) of a skipped or failed turn, ms
skip_sleep_ms == 100

\* get_dynamic_interval for a velocity in whole mm/min, in ms
next_interval_ms(v) == get_dynamic_interval(v * 100, min_jog_interval) \div 1000000

JogEv(o, dt, since_prev, delta) == [op |-> o, dt |-> dt, since_prev |-> since_prev, delta |-> delta]

\* connect: self.running = True and the thread starts; smooth_jog_loop sets
\* last_update_time = time.time() before its first turn
JogLoopStart ==
    /\ ~jl_running
    /\ jl_running' = TRUE
    /\ last_update_time' = jl_now
    /\ prev_turn' = jl_now
    /\ jl_ev' = JogEv("start", 0, 0, 0)
    /\ UNCHANGED <<jl_connected, jl_now, jl_velocity>>
    /\ UNCHANGED non_jl_vars

\* one turn of smooth_jog_loop while connected, to the end of its sleep
JogLoopTurn(stick) ==
    /\ jl_running /\ jl_connected
    /\ jl_now < MaxClock
    /\ LET dt == jl_now - last_update_time
           v == smooth_velocity_transition(jl_velocity, target_velocity(stick), dt)
       IN  /\ jl_velocity' = v
           /\ jl_ev' = JogEv("turn", dt, jl_now - prev_turn, smooth_dx(v, dt))
           /\ last_update_time' = jl_now
           /\ prev_turn' = jl_now
           /\ jl_now' = jl_now + next_interval_ms(v)
    /\ UNCHANGED <<jl_running, jl_connected>>
    /\ UNCHANGED non_jl_vars

\* one turn while not connected: sleep 0.1 s and continue
JogLoopSkip ==
    /\ jl_running /\ ~jl_connected
    /\ jl_now < MaxClock
    /\ prev_turn' = jl_now
    /\ jl_now' = jl_now + skip_sleep_ms
    /\ jl_ev' = JogEv("skip", 0, jl_now - prev_turn, 0)
    /\ UNCHANGED <<jl_running, jl_connected, last_update_time, jl_velocity>>
    /\ UNCHANGED non_jl_vars

\* one turn in which pygame.event.pump() or a joystick read raises: the
\* except branch prints, sleeps 0.1 s and the loop goes on
JogLoopRaise ==
    /\ jl_running /\ jl_connected
    /\ jl_now < MaxClock
    /\ prev_turn' = jl_now
    /\ jl_now' = jl_now + skip_sleep_ms
    /\ jl_ev' = JogEv("raise", jl_now - last_update_time, jl_now - prev_turn, 0)
    /\ UNCHANGED <<jl_running, jl_connected, last_update_time, jl_velocity>>
    /\ UNCHANGED non_jl_vars

\* on_websocket_open
JogConnectionOpen ==
    /\ jl_running /\ ~jl_connected
    /\ jl_connected' = TRUE
    /\ jl_ev' = JogEv("open", 0, 0, 0)
    /\ UNCHANGED <<jl_running, jl_now, last_update_time, prev_turn, jl_velocity>>
    /\ UNCHANGED non_jl_vars

\* on_websocket_close / on_websocket_error: the connection is lost
JogConnectionLost ==
    /\ jl_running /\ jl_connected
    /\ jl_connected' = FALSE
    /\ jl_ev' = JogEv("close", 0, 0, 0)
    /\ UNCHANGED <<jl_running, jl_now, last_update_time, prev_turn, jl_velocity>>
    /\ UNCHANGED non_jl_vars

\* SmoothJoystickController.__init__
JlInit ==
    /\ jl_running = FALSE
    /\ jl_connected = FALSE
    /\ jl_now = 0
    /\ last_update_time = 0
    /\ prev_turn = 0
    /\ jl_velocity = 0
    /\ jl_ev = JogEv("init", 0, 0, 0)

Init == GuiInit /\ WsInit /\ NtInit /\ SjInit /\ AcInit /\ SvInit /\ SmInit /\ IvInit /\ VcInit /\ PlInit /\ GpInit /\ SlInit /\ TkInit /\ PqInit /\ JlInit

Next ==
    \/ Tick
    \/ Connect
    \/ ConnectFail
    \/ Disconnect
    \/ ResetVelocities
    \/ EmergencyStop
    \/ Close

Spec == Init /\ [][Next]_vars

NextWs ==
    \/ WsConnect
    \/ WsConnectFail
    \/ ConnectionClosed
    \/ WsDisconnectBegin
    \/ WsDisconnectFinish
    \/ \E c \in Callers : \E kind \in CallerKinds(c) : SendRequest(c, kind)
    \/ \E k \in RxIds, payload \in Payloads : Receive(k, payload)
    \/ \E c \in Callers : Resume(c)
    \/ \E c \in Callers : TimeoutFire(c)
    \/ \E c \in Callers : TimeoutHandle(c)

SpecWs == Init /\ [][NextWs]_vars

\* the client with its handlers, used by update_printer_positions alone
NextNotify ==
    \/ WsConnect
    \/ ConnectionClosed
    \/ \E h \in Handlers : AddMessageHandler(h)
    \/ \E h \in Handlers : RemoveMessageHandler(h)
    \/ SendRequest("position_update", "send_gcode_and_wait")
    \/ \E k \in RxIds, payload \in Payloads : Receive(k, payload)
    \/ \E k \in RxIds, raising \in SUBSET Handlers : ReceiveNotification(k, raising)
    \/ Resume("position_update")
    \/ TimeoutFire("position_update")
    \/ TimeoutHandle("position_update")

SpecNotify == Init /\ [][NextNotify]_vars

NextSj ==
    \/ SjConnect
    \/ SjDisconnect
    \/ ManualReconnect
    \/ AppOpens
    \/ \E err \in BOOLEAN : AppEnds(err)
    \/ AppCloses
    \/ \E early \in BOOLEAN, raised \in BOOLEAN : TimerFires(early, raised)

SpecSj == Init /\ [][NextSj]_vars

\* the steps the controller's tasks take by themselves
AcProgram ==
    \/ \E stick \in StickPcts, dt \in AcTickDts : AcJogTick(stick, dt)
    \/ \E r \in Outcomes("send_gcode", websocket) : AcJogMoveDone(r)
    \/ \E r \in Outcomes("send_gcode", websocket) : AcJogResetDone(r)
    \/ AcPosCheck
    \/ \E r \in Outcomes("send_gcode_and_wait", websocket) : AcPosXyDone(r)
    \/ AcPosUvSend
    \/ \E r \in Outcomes("send_gcode_and_wait", websocket) : AcPosUvDone(r)
    \/ AcElapse

\* the buttons, and the peer closing the connection
AcEnvironment ==
    \/ \E ok \in BOOLEAN : AcConnect(ok)
    \/ AcDisconnect
    \/ \E ok \in BOOLEAN : AcManualReconnect(ok)
    \/ ConnectionClosed

NextAc == AcProgram \/ AcEnvironment

SpecAc == Init /\ [][NextAc]_vars

\* the event loop runs every task that can take a step; nobody has to press a button
FairSpecAc == Init /\ [][NextAc]_vars /\ WF_vars(AcProgram)

(***************************************************************************)
(* Part I.c  Properties of the jog loop                                    *)
(***************************************************************************)
\* the jog commands (long G1) among the sends of an operation
JogSends(o) == {i \in DOMAIN o : o[i].cmd.name = "G1"}
\* the stop commands (M410) that reached the port
StopsWritten(o) == {i \in DOMAIN o : o[i].cmd.name = "M410" /\ o[i].written}
\* a jog for carriage car in direction dir reached the port
JogWritten(o, car, dir) == \E i \in DOMAIN o : o[i].cmd.name = "G1" /\ o[i].written /\ o[i].cmd.car = car /\ o[i].cmd.dir = dir

\* C1: on a tick whose direction is nonzero and equal to the direction recorded as
\* sent for the selected carriage, with the feed within 50 mm/min of the feed
\* recorded as sent, the loop issues no jog (G1) command.
C1_DedupSuppression ==
    [][(/\ op' = "tick"
        /\ tick_in'.dir # Zero
        /\ tick_in'.dir = last_dir_sent[selected_carriage']
        /\ Abs(tick_in'.feed - last_feed_sent[selected_carriage']) <= 50)
       => JogSends(out') = {}]_vars

\* a connected tick held the direction at a feed that differs from the recorded
\* one (by no more than 50) and sent nothing
C1_Witness ==
    /\ op = "tick" /\ tick_in.conn /\ tick_in.btns = {}
    /\ tick_in.dir # Zero
    /\ last_dir_sent[selected_carriage] = tick_in.dir
    /\ last_feed_sent[selected_carriage] # tick_in.feed
    /\ out = <<>>

\* C2: while connected, a tick with idle input issues a stop (M410) when the
\* selected carriage is recorded as jogging, never more than one stop, and none
\* at all when the tick before it was idle too and no button acted.
C2_StopExactlyOnce ==
    [][(op' = "tick" /\ connected /\ tick_in'.dir = Zero)
       => /\ (last_dir_sent[selected_carriage'] # Zero => Cardinality(StopsWritten(out')) >= 1)
          /\ Cardinality(StopsWritten(out')) <= 1
          /\ ((op = "tick" /\ tick_in.conn /\ tick_in.dir = Zero /\ tick_in'.btns = {})
              => StopsWritten(out') = {})]_vars

\* C3: on a connected tick whose direction is nonzero, with feed at or above the
\* stop threshold, and different from the direction recorded for the selected
\* carriage, a G1 for that direction and carriage is written to the port.
C3_DirectionChangeJogs ==
    [][(/\ op' = "tick" /\ connected
        /\ tick_in'.dir # Zero
        /\ tick_in'.feed >= velocity_stop_threshold
        /\ tick_in'.dir # last_dir_sent[selected_carriage'])
       => JogWritten(out', selected_carriage', tick_in'.dir)]_vars

\* C4: a carriage toggle on a connected tick stops the motion (M410) and, when the
\* stick is held, issues a fresh jog for the newly selected carriage on that
\* tick; when the stick is idle it leaves the new carriage recorded as idle.
C4_ToggleResetsDedup ==
    [][(op' = "tick" /\ connected /\ "toggle" \in tick_in'.btns)
       => /\ StopsWritten(out') # {}
          /\ ((tick_in'.dir # Zero /\ tick_in'.feed >= velocity_stop_threshold)
              => JogWritten(out', selected_carriage', tick_in'.dir))
          /\ (tick_in'.dir = Zero => last_dir_sent'[selected_carriage'] = Zero)]_vars

C6_EmergencyStop ==
    [][op' = "emergency_stop"
       => /\ \A a \in Axes : current_vel'[a] = 0
          /\ (connected => /\ Len(out') = 1
                           /\ out'[1].cmd.name = "M112"
                           /\ out'[1].written
                           /\ ~out'[1].waited)
          /\ (~connected => out' = <<>>)
          /\ last_dir_sent' = last_dir_sent
          /\ last_feed_sent' = last_feed_sent
          /\ printer' = printer]_vars

\* an emergency stop while a jog of the selected carriage is in flight
C6_Witness ==
    /\ op = "emergency_stop" /\ connected
    /\ last_dir_sent[selected_carriage] # Zero
    /\ printer.is_moving
    /\ Len(out) = 1 /\ out[1].cmd.name = "M112" /\ out[1].written

(***************************************************************************)
(* Part II.c  Properties of the websocket client                           *)
(***************************************************************************)
\* caller c waits on a future nobody has resolved or cancelled
InFlight(cl, c) == cl[c].pc = "waiting" /\ cl[c].fut = "pending"
\* every entry of the map p other than k is in the map q, unchanged
OthersKept(p, q, k) == \A j \in DOMAIN p \ {k} : j \in DOMAIN q /\ q[j] = p[j]

\* C7: a request is sent with an id greater than every id issued before, and is
\* registered under that id for its caller; an inbound message with id k changes
\* no caller but the one waiting, unresolved, on request k, whom it resolves with
\* the data of that message; it removes entry k and no other entry.
C7_IdCorrelation ==
    [][/\ (ev'.op = "send"
           => /\ \A j \in issued : ev'.id > j
              /\ DOMAIN pending_requests' = DOMAIN pending_requests \cup {ev'.id}
              /\ pending_requests'[ev'.id] = ev'.c
              /\ call'[ev'.c].id = ev'.id
              /\ OthersKept(pending_requests, pending_requests', ev'.id))
       /\ (ev'.op = "receive"
           => /\ \A c \in Callers :
                    IF InFlight(call, c) /\ call[c].id = ev'.id
                    THEN /\ call'[c].pc = "waiting" /\ call'[c].fut = "result"
                         /\ call'[c].id = ev'.id /\ call'[c].data.id = ev'.id
                    ELSE call'[c] = call[c]
              /\ ev'.id \notin DOMAIN pending_requests'
              /\ DOMAIN pending_requests' \subseteq DOMAIN pending_requests
              /\ OthersKept(pending_requests, pending_requests', ev'.id))
       /\ ((ev'.op = "return" /\ ev'.ret.tag = "response") => ev'.ret.data.id = ev'.id)]_vars

\* a response for an id whose caller has already left (a duplicate, or one that
\* came after the timeout) arrived while another request was in flight
C7_Witness ==
    /\ ev.op = "receive"
    /\ ev.id \in issued
    /\ \A c \in Callers : call[c].id # ev.id
    /\ \E c \in Callers : InFlight(call, c) /\ call[c].id \in DOMAIN pending_requests

\* C8: when a request times out, no other caller is touched, no other entry of
\* pending_requests is removed or changed, the connection is as it was, and every
\* other request in flight is still registered under its own id (so that its
\* response resolves it); the timed-out request's own entry is gone when its
\* caller returns.
C8_TimeoutIsolation ==
    [][(ev'.op \in {"timeout", "timeout_return"})
       => /\ \A d \in Callers \ {ev'.c} : call'[d] = call[d]
          /\ OthersKept(pending_requests, pending_requests', ev'.id)
          /\ DOMAIN pending_requests' \subseteq DOMAIN pending_requests
          /\ (ev'.op = "timeout_return" => ev'.id \notin DOMAIN pending_requests')
          /\ \A d \in Callers \ {ev'.c} :
                InFlight(call, d) => /\ call[d].id \in DOMAIN pending_requests'
                                     /\ pending_requests'[call[d].id] = d
          /\ websocket' = websocket /\ ws_connected' = ws_connected]_vars

\* the position query timed out while two send_gcode requests were in flight
C8_Witness ==
    /\ ev.op = "timeout_return" /\ ev.c = "position_update"
    /\ InFlight(call, "jog_loop") /\ InFlight(call, "callback")
    /\ {call["jog_loop"].id, call["callback"].id} = DOMAIN pending_requests
    /\ call["callback"].kind = "send_gcode"

\* C9: send_gcode_and_wait whose request times out returns None, and on its
\* return the request's id is not in pending_requests and the caller holds no
\* response.
C9_WaitTimeoutReturnsNone ==
    [][(ev'.op = "timeout_return" /\ ev'.kind = "send_gcode_and_wait")
       => /\ ev'.ret = Ret("None", NoData)
          /\ ev'.id \notin DOMAIN pending_requests'
          /\ call'[ev'.c] = IdleCall]_vars

\* send_gcode_and_wait returned None on a timeout, the connection still up and
\* another request still registered
C9_Witness ==
    /\ ev.op = "timeout_return" /\ ev.kind = "send_gcode_and_wait"
    /\ ev.ret.tag = "None"
    /\ ev.id \in issued
    /\ websocket = "open" /\ ws_connected
    /\ DOMAIN pending_requests # {}

\* C10: when disconnect() completes, pending_requests is empty and every request
\* in flight has its future cancelled; a caller that wakes on a cancelled future
\* returns the failure value of its call (False / None) and is free to call again.
C10_DisconnectFailsCallers ==
    [][/\ (ev'.op = "disconnect_done"
           => /\ DOMAIN pending_requests' = {}
              /\ \A c \in Callers : InFlight(call, c) => call'[c].fut = "cancelled")
       /\ \A c \in Callers :
            (call[c].pc = "waiting" /\ call[c].fut = "cancelled" /\ call'[c] # call[c])
            => /\ ev'.op = "return"
               /\ ev'.ret.tag \in {"False", "None"}
               /\ call'[c].pc = "idle"]_vars

\* disconnect() completed while send_gcode of the jog loop was in flight, and the
\* jog loop's coroutine ended with CancelledError
C10_Witness ==
    /\ ev.op = "raise" /\ ev.c = "jog_loop" /\ ev.kind = "send_gcode"
    /\ ev.ret.tag = "CancelledError"
    /\ call["jog_loop"].pc = "cancelled"
    /\ DOMAIN pending_requests = {}

\* C11: when the receiver observes the connection closed, connected becomes False
\* and every request in flight at that moment is resolved with an error at that
\* moment: its future is no longer pending and pending_requests is empty.
C11_ReceiveFailureCancelsPending ==
    [][ev'.op = "connection_closed"
       => /\ ~ws_connected'
          /\ \A c \in Callers : InFlight(call, c) => call'[c].fut # "pending"
          /\ DOMAIN pending_requests' = {}]_vars

\* the peer closed the connection while send_gcode of the jog loop was in flight:
\* the request is still pending and still registered
C11_Witness ==
    /\ ev.op = "connection_closed" /\ ~ws_connected
    /\ InFlight(call, "jog_loop")
    /\ call["jog_loop"].id \in DOMAIN pending_requests

(***************************************************************************)
(* Part I.d  Properties of the GUI's bookkeeping after a send              *)
(***************************************************************************)
\* the operation that ran last was a connected tick without buttons whose G1 was
\* sent and failed (Printer.jog returned False)
JogFailed(o, ti, sends) ==
    /\ o = "tick" /\ ti.conn /\ ti.btns = {}
    /\ \E i \in DOMAIN sends : sends[i].cmd.name = "G1" /\ ~sends[i].ret

\* C16: the record of the last direction and feed sent for a carriage changes only
\* if the jog command of the tick was sent successfully: a tick whose jog command
\* failed leaves _last_dir_sent and _last_feed_sent as they were.
C16_DedupOnlyOnSuccess ==
    [][JogFailed(op', tick_in', out')
       => last_dir_sent' = last_dir_sent /\ last_feed_sent' = last_feed_sent]_vars

\* a tick's G1 failed and the record of the selected carriage now holds the
\* direction of that tick
C16_Witness ==
    /\ JogFailed(op, tick_in, out)
    /\ tick_in.dir # Zero
    /\ last_dir_sent[selected_carriage] = tick_in.dir

(***************************************************************************)
(* Part I.e  The GUI's position estimate: ticks long enough to move it     *)
(***************************************************************************)
\* a tick 100 ms after the last one: 1 mm at 600 mm/min
LongTickDts == {100}
\* the throttle lever held at the low end: max_speed becomes base_speed
LowSpeedPcts == {0}

LongTick ==
    \E ax0 \in Axis0Vals, ax1 \in Axis1Vals, hat \in HatVals, pct \in LowSpeedPcts, dt \in LongTickDts, ackStop \in BOOLEAN, ackJog \in BOOLEAN :
        loop_iteration(ax0, ax1, hat, pct, {}, dt, ackStop, ackJog, <<TRUE, TRUE>>)

NextPos ==
    \/ LongTick
    \/ Connect
    \/ Disconnect
    \/ EmergencyStop

SpecPos == Init /\ [][NextPos]_vars

\* C17: on a jog tick the position estimate changes only if the motion command of
\* that tick was sent successfully: a tick whose jog command failed leaves the
\* position estimate unchanged.
C17_IntegrateOnlyOnSuccess ==
    [][JogFailed(op', tick_in', out') => positions' = positions]_vars

\* a tick's G1 failed, the printer is not moving, and the estimate of x is off zero
C17_Witness ==
    /\ JogFailed(op, tick_in, out)
    /\ positions["x"] # 0
    /\ ~printer.is_moving

(***************************************************************************)
(* Part III.c  Properties of notification routing                          *)
(***************************************************************************)
\* the handlers called, in order
Called(n) == [i \in DOMAIN n |-> n[i].h]

\* C15: an inbound message with a method and no request id is delivered exactly
\* once to every registered handler, in registration order, and leaves
\* pending_requests unchanged; a handler that raises neither cuts the delivery
\* short nor stops the receiver (the connection stays as it was).
C15_NotificationRouting ==
    [][(ev'.op = "notification" /\ ev'.id = 0)
       => /\ Called(notified') = message_handlers
          /\ pending_requests' = pending_requests
          /\ ws_connected' = ws_connected /\ websocket' = websocket]_vars

\* a notification without id arrived while a request was pending; two different
\* handlers were registered, the first raised and the second was still called
C15_Witness ==
    /\ ev.op = "notification" /\ ev.id = 0
    /\ DOMAIN pending_requests # {}
    /\ Len(notified) = 2
    /\ notified[1].raised /\ notified[1].h # notified[2].h
    /\ ws_connected

(***************************************************************************)
(* Part IV.c  Properties of the reconnection of SmoothJoystickController   *)
(***************************************************************************)
\* C13: reconnect_backoff never exceeds the 3.0 s cap, and it never decreases
\* except by the reset of a successful open: every step that lowers it is
\* on_websocket_open.
C13_BackoffMonotoneCapped ==
    [][/\ reconnect_backoff' <= backoff_cap
       /\ (reconnect_backoff' < reconnect_backoff => sj_op' = "on_websocket_open")]_vars

\* the attempts were found used up by a Timer: reconnect_backoff is 5.0 s
C13_Witness ==
    /\ sj_op = "attempts_used_up"
    /\ reconnect_backoff = exhausted_backoff
    /\ sj_running /\ ~sj_connected

\* C14: between two successful opens or user commands at most
\* max_reconnect_attempts reconnections are started from a Timer, and while the
\* budget is used up the controller stays disconnected.
C14_GiveUpAfterMax ==
    [][/\ auto_started' <= max_reconnect_attempts
       /\ (auto_started = max_reconnect_attempts /\ auto_started' = auto_started => ~sj_connected')]_vars

\* a sixth reconnection was started from a Timer with no open and no user command
\* since the first
C14_Witness ==
    /\ sj_op = "attempt_started"
    /\ auto_started = max_reconnect_attempts + 1
    /\ sj_running /\ ~sj_connected

(***************************************************************************)
(* Part V.c  Properties of AsyncSmoothJoystickController                   *)
(***************************************************************************)
\* the client's receiver has seen the connection closed while the controller runs
Lost == websocket = "closed" /\ ~ws_connected /\ ac_running

\* the client's connect was called
ReconnectStarted == ev.op \in {"connect", "connect_failed"}

\* C12: while the connection is lost the controller's own connected flag is False,
\* and a lost connection leads to a reconnect attempt although nobody presses a
\* button.
C12_AutoReconnect ==
    /\ [](Lost => ~ac_connected)
    /\ (Lost ~> ReconnectStarted)

\* the peer closed the connection; the controller still believes it is connected
\* and its jog loop goes on
C12_Witness ==
    /\ Lost
    /\ ac_connected
    /\ ac_ev.op = "jog_move" /\ ac_ev.result = "False"

\* the step ends the kinematic-position reset of the jog loop: it was refused at
\* once, or the task that awaited it goes on or ends
ResetEnds(pc, pc2, e2) ==
    \/ pc = "await_move" /\ e2.op = "move_done" /\ e2.result = "400" /\ pc2 # "await_reset"
    \/ pc = "await_reset" /\ pc2 # "await_reset"

\* C18: a jog command answered with error 400 is followed at once by one
\* SET_KINEMATIC_POSITION carrying the tracked positions, the jog loop goes on, and
\* "Homing Error" is shown exactly by the steps that end a reset which was not
\* answered with ok.
C18_NeedsHomingFallback ==
    [][/\ (jog_pc = "await_move" /\ ac_ev'.op = "move_done" /\ ac_ev'.result = "400")
          => /\ ac_ev'.sent = <<reset_gcode(ac_positions)>>
             /\ jog_pc' # "dead"
             /\ ac_ev'.shown # "Unknown error"
       /\ (ac_ev' # ac_ev /\ ac_ev'.shown = "Homing Error") => ResetEnds(jog_pc, jog_pc', ac_ev')
       /\ ResetEnds(jog_pc, jog_pc', ac_ev')
          => (ac_ev'.shown = "Homing Error" <=> ~(ac_ev'.op = "reset_done" /\ ac_ev'.result = "True"))]_vars

\* the reset was in flight when the Disconnect button was pressed: the jog loop
\* ended with CancelledError and nothing was shown
C18_Witness ==
    /\ ac_ev.op = "disconnect" /\ ac_ev.result = "await_reset"
    /\ jog_pc = "dead"
    /\ ac_ev.shown = "none"

\* C19: when the kinematic-position reset that followed a rejected move is
\* answered with ok, the rejected move is sent again, once.
C19_RetryOnce ==
    [][(jog_pc = "await_reset" /\ ac_ev'.op = "reset_done" /\ ac_ev'.result = "True")
       => ac_ev'.sent = <<jog_move>>]_vars

\* the reset was answered with ok, nothing was sent, and the estimate holds the
\* rejected move
C19_Witness ==
    /\ ac_ev.op = "reset_done" /\ ac_ev.result = "True"
    /\ ac_ev.sent = << >>
    /\ ac_positions.x # 0
    /\ jog_pc = "sleep"

\* C20: the XY query and the UV query of periodic_position_update are each sent
\* in a state where the velocity is below the stop threshold and at least 2 s have
\* passed since the last movement; the XY query also at least 5 s after the last
\* update.
C20_ReconciliationGating ==
    [][/\ (pos_pc = "sleep" /\ ac_ev'.op = "pos_query_xy")
          => /\ Abs(current_velocity) < smooth_stop_threshold
             /\ since_movement >= idle_seconds
             /\ since_update >= update_seconds
       /\ (pos_pc = "pause" /\ ac_ev'.op = "pos_query_uv")
          => /\ Abs(current_velocity) < smooth_stop_threshold
             /\ since_movement >= idle_seconds]_vars

\* the UV query has just been sent while the jog loop has a move in flight
C20_Witness ==
    /\ ac_ev.op = "pos_query_uv"
    /\ pos_pc = "await_uv"
    /\ jog_pc = "await_move"
    /\ current_velocity >= smooth_stop_threshold
    /\ since_movement = 0

(***************************************************************************)
(* Part I.f  The saved-position store of the GUI                           *)
(***************************************************************************)
\* at most MaxSaved snapshots are kept (a save on a full list is not taken)
MaxSaved == 2

\* buttons of the controller pressed with the stick centred: 2 saves, 4 goes to the
\* selection, 0 homes
StoreButtonSets == {{"save"}, {"goto"}, {"home"}}

\* a tick with the stick centred and one of the store buttons pressed
ButtonTick ==
    \E btns \in StoreButtonSets, pct \in LowSpeedPcts, dt \in LongTickDts, ackStop \in BOOLEAN, a1 \in BOOLEAN, a2 \in BOOLEAN :
        /\ "save" \in btns => Len(positions_list) < MaxSaved
        /\ loop_iteration(0, 0, 0, pct, btns, dt, ackStop, TRUE, <<a1, a2>>)

NextSaved ==
    \/ LongTick
    \/ ButtonTick
    \/ OnClick
    \/ RemoveSelected
    \/ ClearAll
    \/ Connect
    \/ Disconnect

SpecSaved == Init /\ [][NextSaved]_vars

\* the tick that ran last (the step's tick, when primed) went to the selected snapshot
GotoRan(o, ti, g) == o = "tick" /\ "goto" \in ti.btns /\ goto_guard(g)

\* the relative moves among the sends of an operation, for carriage c
GotoMoves(sends, c) == {i \in DOMAIN sends : sends[i].cmd.name = "G91 G1" /\ sends[i].cmd.car = c}
Accepted(sends, c) == \E i \in GotoMoves(sends, c) : sends[i].ret

\* the part of a snapshot / of the position estimate that belongs to carriage c
SnapPart(snap, c) == IF c = 1 THEN <<snap[1], snap[2], snap[3]>> ELSE <<snap[4], snap[5], snap[6]>>
PosPart(pos, c) == SnapPart(snapshot(pos), c)

\* C21: a goto of the selected snapshot issues at most one relative move per carriage,
\* by (snapshot - position estimate); the estimate of a carriage becomes the snapshot
\* if the move for that carriage was sent and accepted, and is unchanged if it failed,
\* was rejected or the printer is disconnected.
C21_GotoOnlyOnSuccess ==
    [][GotoRan(op', tick_in', store)
       => \A c \in Carriages :
            LET snap == positions_list[selected_row_index + 1]
            IN  /\ Cardinality(GotoMoves(out', c)) <= 1
                /\ \A i \in GotoMoves(out', c) :
                       \A k \in 1..3 : out'[i].cmd.dir[k] = SnapPart(snap, c)[k] - PosPart(positions, c)[k]
                /\ IF Accepted(out', c)
                   THEN PosPart(positions', c) = SnapPart(snap, c)
                   ELSE PosPart(positions', c) = PosPart(positions, c)]_vars

\* a goto whose move for some carriage was written but not acknowledged, after which
\* the estimate holds the snapshot
C21_Witness ==
    /\ GotoRan(op, tick_in, store)
    /\ \E c \in Carriages : GotoMoves(out, c) # {} /\ ~Accepted(out, c)
    /\ snapshot(positions) = positions_list[selected_row_index + 1]

\* C22: the selection is None or a valid index of positions_list, the table has one
\* row per saved position, and after "Remove Selected" or "Clear All" nothing is
\* selected.
C22_NoDanglingSelection ==
    /\ selected_row_index = None \/ (0 <= selected_row_index /\ selected_row_index < Len(positions_list))
    /\ Len(row_list) = Len(positions_list)
    /\ op \in {"remove", "remove_none", "clear"} => selected_row_index = None

\* the last of two saved positions was selected and removed: one entry and its row
\* are left, nothing is selected
C22_Witness ==
    /\ op = "remove"
    /\ Len(positions_list) = 1
    /\ row_list = <<0>>
    /\ selected_row_index = None

C24_AlwaysReschedules ==
    [][op' = "tick" /\ running' => scheduled']_vars

\* a tick ran with the stick centred while the printer object still had a jog in
\* flight, and no further tick is scheduled
C24_Witness ==
    /\ op = "tick"
    /\ running
    /\ ~scheduled
    /\ tick_in.dir = Zero
    /\ printer.is_moving

\* C25: every G1 the jog loop hands to send_gcode runs on the carriage it was computed
\* for (x / y), whatever carriage the scripts sent before it left selected: its script
\* selects that carriage for both axes before the G1 line.
C25_MovePrefixed ==
    [][\A i \in DOMAIN ac_ev'.sent :
           ac_ev'.sent[i].name = "G1"
           => g1_carriages(klipper_after(dual_carriage, SubSeq(ac_ev'.sent, 1, i - 1)), script_lines(ac_ev'.sent[i]))
                  = {[x |-> 1, y |-> 1]}]_vars

\* a move is in flight whose script arrived while the position query of the other
\* carriage had left x2 / y2 selected
C25_Witness ==
    /\ ac_ev.op = "jog_move"
    /\ ac_ev.result = "none"
    /\ dc_before = [x |-> 2, y |-> 2]
    /\ dual_carriage = [x |-> 1, y |-> 1]

(***************************************************************************)
(* Part VI.c  Properties of the pure functions                             *)
(***************************************************************************)
OtherInit == GuiInit /\ WsInit /\ NtInit /\ SjInit /\ AcInit /\ SvInit /\ PlInit /\ GpInit /\ SlInit /\ TkInit /\ PqInit /\ JlInit

\* the jog loop applying smooth_velocity_transition tick after tick, from any
\* velocity, the stick released at first
InitSmooth ==
    /\ OtherInit /\ IvInit /\ VcInit
    /\ sm_vel \in -MaxSmoothVel..MaxSmoothVel
    /\ sm_target = 0
    /\ sm_dt = -1

NextSmooth == SmoothTick \/ SmoothRetarget

SpecSmooth == InitSmooth /\ [][NextSmooth]_vars
\* smooth_jog_loop runs while the controller runs: its next iteration always comes
FairSpecSmooth == SpecSmooth /\ WF_vars(SmoothTick)

\* C26: smooth_velocity_transition never returns a velocity v with
\* 0 < |v| < velocity_stop_threshold; with a target of zero every call takes at least
\* 30% off the magnitude; and if the target stays zero the velocity becomes 0 and
\* stays 0.
C26_SmoothingTerminates ==
    /\ [][sm_dt' # -1
          => /\ ~(0 < Abs(sm_vel') /\ Abs(sm_vel') < smooth_stop_threshold)
             /\ sm_target = 0 => 1000 * Abs(sm_vel') <= (1000 - min_decay_pm) * Abs(sm_vel)]_vars
    /\ (<>[](sm_target = 0)) => <>[](sm_vel = 0)

\* the stick is released and a call with dt = 0, where only the 30% floor acts, has
\* returned a velocity right at the stop threshold
C26_Witness ==
    /\ sm_target = 0
    /\ sm_dt = 0
    /\ Abs(sm_vel) = smooth_stop_threshold

\* get_dynamic_interval applied to pairs of velocities, under the configuration as
\* constructed and as auto_calibrate_network leaves it
InitInterval ==
    /\ OtherInit /\ SmInit /\ VcInit
    /\ iv_min = min_jog_interval
    /\ iv_v \in IntervalVels \X IntervalVels
    /\ iv_out = <<get_dynamic_interval(iv_v[1], iv_min), get_dynamic_interval(iv_v[2], iv_min)>>

NextInterval == ApplyInterval \/ AutoCalibrate

SpecInterval == InitInterval /\ [][NextInterval]_vars

\* C27: the value of get_dynamic_interval lies between min_jog_interval and
\* max_jog_interval, is max_jog_interval for |v| < 0.1, is min_jog_interval for
\* |v| >= max_speed, and of two calls the one with the larger |v| does not give the
\* larger interval.
C27_DynamicInterval ==
    /\ \A i \in 1..2 :
        /\ iv_min <= iv_out[i] /\ iv_out[i] <= max_jog_interval
        /\ Abs(iv_v[i]) < interval_still_threshold => iv_out[i] = max_jog_interval
        /\ Abs(iv_v[i]) >= interval_max_speed => iv_out[i] = iv_min
    /\ \A i, j \in 1..2 : Abs(iv_v[i]) <= Abs(iv_v[j]) => iv_out[i] >= iv_out[j]

\* after a calibration that measured 150 ms, a call at full speed follows a call at
\* rest and returns the longer interval
C27_Witness ==
    /\ iv_min > max_jog_interval
    /\ iv_v = <<0, interval_max_speed>>
    /\ iv_out[2] > iv_out[1]

\* C39: after auto_calibrate_network, whatever latency it measured,
\* min_jog_interval <= max_jog_interval still holds, and get_dynamic_interval
\* stays between the two and does not grow with |velocity|.
C39_CalibrationKeepsOrdering ==
    /\ iv_min <= max_jog_interval
    /\ \A i \in 1..2 : iv_out[i] \in iv_min..max_jog_interval
    /\ \A i, j \in 1..2 : Abs(iv_v[i]) <= Abs(iv_v[j]) => iv_out[i] >= iv_out[j]

\* the configuration as a calibration that measured 150 ms leaves it: the lower
\* bound is above the upper one, and the interval at rest is below the lower bound
C39_Witness ==
    /\ iv_min = calibrated_min_interval(150000000)
    /\ iv_min > max_jog_interval
    /\ iv_v = <<0, 0>>
    /\ iv_out[1] < iv_min

\* get_velocity_curve applied to every stick input in whole percent, in both modes
\* and for both configuration classes (at first: JogConfig, fine mode off)
InitCurve ==
    /\ OtherInit /\ SmInit /\ IvInit
    /\ vc_in \in [raw : StickInputs, fine_mode : {FALSE}, cfg : {"JogConfig"}]
    /\ vc_out = get_velocity_curve(vc_in.raw, vc_in.fine_mode, vc_in.cfg)

NextCurve == ApplyCurve

SpecCurve == InitCurve /\ [][NextCurve]_vars

\* C28 as stated: inside the deadzone get_velocity_curve returns 0 in both modes; for
\* |raw| >= deadzone the result has the sign of raw.
C28_DeadzoneAsStated ==
    /\ Abs(vc_in.raw) < cfg_deadzone_pct(vc_in.cfg) => vc_out = 0
    /\ Abs(vc_in.raw) >= cfg_deadzone_pct(vc_in.cfg) => Sgn(vc_out) = Sgn(vc_in.raw)

\* C28: inside the deadzone and at its edge (|raw| <= deadzone) get_velocity_curve
\* returns 0 in both modes; for |raw| > deadzone the result is not 0 and has the sign
\* of raw.
C28_Deadzone ==
    /\ Abs(vc_in.raw) <= cfg_deadzone_pct(vc_in.cfg) => vc_out = 0
    /\ Abs(vc_in.raw) > cfg_deadzone_pct(vc_in.cfg) => Sgn(vc_out) = Sgn(vc_in.raw)

\* fine mode, the stick one percent beyond the deadzone to the negative side: a
\* small negative velocity
C28_Witness ==
    /\ vc_in.fine_mode
    /\ vc_in.raw = -(cfg_deadzone_pct(vc_in.cfg) + 1)
    /\ vc_out < 0

(***************************************************************************)
(* Part I.h  Printer.jog: stop before move                                 *)
(***************************************************************************)
\* the tick called Printer.jog: connected, a direction, a feed of at least the stop
\* threshold, and direction or feed differ from what the GUI recorded as sent
JogCalled(ti, lds, lfs, sel) ==
    /\ ti.conn /\ ti.btns = {}
    /\ ti.dir # Zero /\ Max(0, ti.feed) >= velocity_stop_threshold
    /\ changed_dir(ti.dir, lds[sel]) \/ changed_feed(Max(0, ti.feed), lfs[sel])

\* C29: when Printer.jog issues a G1 while is_moving is True, an M410 reaches the
\* port right before that G1; when direction and feed equal those of the jog in
\* flight for the carriage, Printer.jog writes no M410 and no G1.
C29_StopBeforeMove ==
    [][op' = "tick" /\ JogCalled(tick_in', last_dir_sent, last_feed_sent, selected_carriage)
       => /\ printer.is_moving
              => \A i \in JogSends(out') :
                     i > 1 /\ out'[i - 1].cmd.name = "M410" /\ out'[i - 1].written
          /\ jog_unchanged(set_carriage(printer, selected_carriage), tick_in'.dir, Max(1, Max(0, tick_in'.feed)))
              => out' = <<>>]_vars

\* a jog in a new direction replaced the one in flight: M410, then the G1, both
\* written, and the new jog is in flight
C29_Witness ==
    /\ op = "tick"
    /\ Len(out) = 2
    /\ out[1].cmd.name = "M410" /\ out[1].written /\ ~out[1].waited
    /\ out[2].cmd.name = "G1" /\ out[2].written /\ out[2].ret
    /\ printer.is_moving

(***************************************************************************)
(* Part VII.b   The plugin loop on its own.            Specification       *)
(*              SpecPlugin                                                 *)
(***************************************************************************)
NextPlugin == PluginTick \/ PluginPumpFail \/ PluginShutdown
SpecPlugin == Init /\ [][NextPlugin]_vars

\* the lines written by the deadzone branch of _loop in the last pass
RECURSIVE by_branch(_)
by_branch(sent) ==
    IF sent = <<>> THEN <<>>
    ELSE (IF Head(sent).by = "deadzone" THEN <<Head(sent)>> ELSE <<>>) \o by_branch(Tail(sent))

\* the last pass read an input in the deadzone directly after a pass that read a
\* nonzero direction, the printer being operational in both passes
EnteredDeadzone ==
    /\ pl_ev.op = "tick"
    /\ pl_ev.dz /\ ~pl_ev.prev_dz
    /\ pl_ev.prev_oper /\ pl_ev.oper

\* the stops of the deadzone branch alone keep the distance: during one stay of the
\* input in the deadzone, two consecutive M410 written by the branch at lines 209-218
\* are more than 0.25 s apart
PluginDeadzoneBranchSpacing ==
    (pl_ev.op = "tick" /\ pl_ev.dz /\ by_branch(pl_ev.sent) # <<>> /\ pl_ev.branch_last # 0)
        => pl_ev.at - pl_ev.branch_last > 250

\* C30: plugin deadzone stop policy.  While the printer is operational, the pass on
\* which the input enters the deadzone from a nonzero direction sends an M410, and
\* while the input stays in the deadzone any two consecutive M410 that the loop
\* sends (from the deadzone branch or from the button handling it calls) are more
\* than 0.25 s apart: no pass sends two, and a pass that sends one does so more
\* than 250 ms after the previous one of the same stay.
C30_DeadzoneStopPolicy ==
    /\ EnteredDeadzone => by_branch(pl_ev.sent) # <<>>
    /\ (pl_ev.op = "tick" /\ pl_ev.dz /\ pl_ev.prev_dz)
          => /\ Len(stops_in(pl_ev.sent)) <= 1
             /\ (stops_in(pl_ev.sent) # <<>> /\ pl_ev.stay_last # 0)
                    => pl_ev.at - pl_ev.stay_last > 250

\* the input has stayed in the deadzone, the previous M410 of the stay is at most
\* 0.25 s old, and the button handling of this pass has sent another one
C30_Witness ==
    /\ pl_ev.op = "tick" /\ pl_ev.dz /\ pl_ev.prev_dz
    /\ pl_ev.stay_last # 0
    /\ pl_ev.at - pl_ev.stay_last <= 250
    /\ Len(stops_in(pl_ev.sent)) = 1
    /\ stops_in(pl_ev.sent)[1].by = "toggle_car"

(***************************************************************************)
(* Part VIII.b   Properties of Printer.get_position.                       *)
(*               Specification SpecM114                                    *)
(***************************************************************************)
NextM114 == QueryPosition
SpecM114 == Init /\ [][NextM114]_vars

\* the controller answered with a position report followed by an ok line
ReportThenOk == Len(gp_reply) = 2 /\ gp_reply[1] \in ReportLines /\ gp_reply[2] = ok_line

\* C31: position report parsing.  When the controller answers M114 with a position
\* report line followed by an ok line, get_position returns for x, y and z the
\* values given before 'Count', as the parsing script test.py computes them from
\* the report line.
C31_ReportParsed ==
    (ReportThenOk /\ ~gp_ret.none) => gp_ret = test_parse(gp_reply[1])

\* a report with a nonzero x before 'Count' was answered and get_position returned a position
C31_Witness ==
    /\ ReportThenOk
    /\ ~gp_ret.none
    /\ gp_reply[1][1].v # 0

(***************************************************************************)
(* Part IX.b   Properties of the serial link.     Specification SpecSerial *)
(***************************************************************************)
NextSerial ==
    \/ \E t \in Threads : SgBegin(t)
    \/ \E t \in Threads : SgWrite(t)
    \/ \E t \in Threads : SgWritten(t)
    \/ \E t \in Threads : SgReadLine(t)
    \/ \E t \in Threads : SgTimeout(t)
    \/ \E t \in Threads : GpBegin(t)
    \/ \E t \in Threads : GpReadLine(t)
    \/ \E t \in Threads : GpTimeout(t)
    \/ ControllerAnswers
SpecSerial == Init /\ [][NextSerial]_vars

\* thread u is inside send_gcode: it has entered `with self._io_lock` and not yet returned
InSendGcode(u) == sl_pc[u] \in {"write", "read"}
OtherInSendGcode(t) == \E u \in Threads \ {t} : InSendGcode(u)

\* C32: serial access is serialized across threads.  A step in which a thread writes
\* to or reads from the port is never taken while another thread is inside
\* send_gcode, and a get_position called while another thread is inside send_gcode
\* returns None in that same step, M114 not written.
C32_SerializedAccess ==
    [][ /\ (sl_ev'.port # "none" /\ sl_ev'.by \in Threads) => ~OtherInSendGcode(sl_ev'.by)
        /\ (sl_ev'.op = "get_position" /\ OtherInSendGcode(sl_ev'.by))
              => /\ sl_call'[sl_ev'.by].ret = "None"
                 /\ sl_pc'[sl_ev'.by] = "idle"
                 /\ sl_wire' = sl_wire
                 /\ sl_next_id' = sl_next_id ]_vars

\* get_position was called by one thread while the other was waiting for its ok
\* inside send_gcode, and has returned None
C32_Witness ==
    /\ sl_ev.op = "get_position"
    /\ sl_ev.held_by \in Threads \ {sl_ev.by}
    /\ sl_pc[sl_ev.held_by] = "read"
    /\ sl_call[sl_ev.by].ret = "None"

\* thread t has returned True from a send_gcode(wait_ok=True)
ReturnedTrue(t) ==
    /\ sl_pc[t] = "idle"
    /\ sl_call[t].kind = "send" /\ sl_call[t].wait_ok
    /\ sl_call[t].ret = "True"

\* C33: acknowledgement matching on the serial link.  Whenever send_gcode(wait_ok=True)
\* has returned True, the 'ok' it consumed is the one the controller produced for the
\* last line written by that call.
C33_AckMatches ==
    \A t \in Threads : ReturnedTrue(t) => sl_call[t].consumed = sl_call[t].last_id

\* a send_gcode(wait_ok=True) has returned True on an 'ok' while the 'ok' for its own
\* last line has not been produced or is still unread
C33_Witness ==
    \E t \in Threads :
        /\ ReturnedTrue(t)
        /\ sl_call[t].consumed < sl_call[t].last_id
        /\ \/ \E i \in 1..Len(sl_wire) : sl_wire[i].id = sl_call[t].last_id
           \/ \E i \in 1..Len(sl_rx) : sl_rx[i].id = sl_call[t].last_id

(***************************************************************************)
(* Part I.i   The dispatcher's record of motion against the printer's.     *)
(*            Specification SpecMotion                                     *)
(***************************************************************************)
\* a tick with the speed slider at rest: the stick, the toggle button, both acknowledgements
MotionTick ==
    \E ax0 \in Axis0Vals, ax1 \in Axis1Vals, hat \in HatVals, pct \in LowSpeedPcts, btns \in ButtonSets, dt \in TickDts, ackStop \in BOOLEAN, ackJog \in BOOLEAN :
        loop_iteration(ax0, ax1, hat, pct, btns, dt, ackStop, ackJog, <<TRUE, TRUE>>)

NextMotion ==
    \/ MotionTick
    \/ MoveStep
    \/ Connect
    \/ Disconnect
SpecMotion == Init /\ [][NextMotion]_vars

\* C34: dispatcher and transport agree on motion state.  If the last direction
\* recorded by FlexAlignerGUI for the selected carriage is nonzero, then
\* Printer.is_moving is True and Printer's own last direction for that carriage
\* equals it; and at most one carriage has a nonzero recorded last direction.
C34_MotionStateAgrees ==
    /\ last_dir_sent[selected_carriage] # Zero
          => /\ printer.is_moving
             /\ printer.last_dir[selected_carriage] = last_dir_sent[selected_carriage]
    /\ \A c, d \in Carriages : (last_dir_sent[c] # Zero /\ last_dir_sent[d] # Zero) => c = d

\* every jog so far was acknowledged and the carriage was never toggled, a step move
\* has stopped the jog, and the GUI still records the jog's direction
C34_Witness ==
    /\ op = "move_step"
    /\ Len(out) = 2 /\ out[1].cmd.name = "M410" /\ out[1].ret
    /\ last_dir_sent[selected_carriage] # Zero
    /\ ~printer.is_moving
    /\ printer.last_dir[selected_carriage] = Zero

(***************************************************************************)
(* Part IV.d  Callbacks of a superseded WebSocketApp                       *)
(***************************************************************************)
\* C35: callbacks of a superseded connection are inert.  While the current WebSocketApp
\* is open, an on_close that fires (it can only come from an app that was replaced)
\* leaves connected and the set of reconnection timers as they are, and no
\* reconnection attempt started from a timer closes the open connection.
C35_StaleCallbacksInert ==
    [][ /\ (ws_app = "open" /\ sj_op' = "on_websocket_close")
              => (sj_connected' = sj_connected /\ timers' = timers)
        /\ (ws_app = "open" /\ sj_op' = "attempt_started")
              => ws_app' = "open" ]_vars

\* the current WebSocketApp is open, the on_close of a replaced one has just run, and
\* the controller counts itself disconnected with a reconnection timer armed
C35_Witness ==
    /\ sj_op = "on_websocket_close"
    /\ ws_app = "open"
    /\ ~sj_connected
    /\ timers > 0

(***************************************************************************)
(* Part X.a  How many jog loops and position updaters run                  *)
(***************************************************************************)

NextTasks ==
    \/ TkConnectClick
    \/ \E success \in BOOLEAN : TkConnectDone(success)
    \/ TkDisconnect
    \/ TkReconnectClick
    \/ \E success \in BOOLEAN : TkReconnectDone(success)
    \/ TkJogTurn
    \/ TkPosTurn
    \/ ThConnect
    \/ ThDisconnect
    \/ ThManualReconnect
    \/ \E newest \in BOOLEAN : ThJogTurn(newest)

SpecTasks == Init /\ [][NextTasks]_vars

\* C36: whatever the order of connect, disconnect and manual reconnect, a
\* controller has at most one jog loop and at most one periodic position
\* updater that was started and has not returned.
C36_AtMostOneLoop ==
    /\ jog_tasks <= 1
    /\ pos_tasks <= 1
    /\ jog_threads <= 1

\* a connect that followed a disconnect before the stopped loop looked at
\* self.running: two jog loops of one controller go on running
C36_Witness ==
    /\ tk_op = "connected"
    /\ tk_running
    /\ jog_tasks = 2
    /\ connect_calls = 0

(***************************************************************************)
(* Part XI.a  Which carriage a position report is stored for               *)
(***************************************************************************)

NextPositions ==
    \/ UpdateStart
    \/ UpdateSendUv
    \/ UpdateTimeout
    \/ PrinterRuns
    \/ ReceiveMessage

SpecPositions == Init /\ [][NextPositions]_vars

\* C37: however queries, their results and timeouts, and the
\* notify_gcode_response messages interleave, x/y only ever hold a report
\* produced for the XY carriage and u/v only one produced for the UV carriage.
C37_ReportToItsCarriage ==
    /\ stored_from.xy \in {"none", "xy"}
    /\ stored_from.uv \in {"none", "uv"}

\* the XY query timed out, the UV query went out, and then the report of the
\* XY carriage arrived and was stored
C37_Witness ==
    /\ pq_ev.op = "report"
    /\ pq_ev.carriage = "xy"
    /\ pq_ev.pending = "uv"
    /\ stored_from.uv = "xy"

(***************************************************************************)
(* Part XII.a  The dt of a turn of the jog loop                            *)
(***************************************************************************)

NextJogClock ==
    \/ JogLoopStart
    \/ \E stick \in StickPcts : JogLoopTurn(stick)
    \/ JogLoopSkip
    \/ JogLoopRaise
    \/ JogConnectionOpen
    \/ JogConnectionLost

SpecJogClock == Init /\ [][NextJogClock]_vars

\* the longest sleep of the loop, ms
longest_sleep_ms == Max(skip_sleep_ms, max_jog_interval \div 1000000)

\* C38: the dt a turn of the jog loop integrates over is the time since the
\* loop's previous turn; the time of turns skipped while disconnected or
\* ended by an exception is not part of it, so no delta covers an outage.
C38_DtExcludesSkipped ==
    jl_ev.op = "turn" => /\ jl_ev.dt = jl_ev.since_prev
                         /\ jl_ev.dt <= longest_sleep_ms

\* the first turn after an outage: the stick is held, the turn integrates
\* over the whole outage and commands a delta for it
C38_Witness ==
    /\ jl_ev.op = "turn"
    /\ jl_ev.since_prev = skip_sleep_ms
    /\ jl_ev.dt >= 3 * skip_sleep_ms
    /\ jl_ev.delta # 0

====
